---- MODULE Spec2Model ----
(***************************************************************************)
(* The Route primitive of the vtgate engine (engine/route.go) together     *)
(* with the parts of the evaluation engine (evalengine/arithmetic.go) that *)
(* its row comparator uses.                                                *)
(*                                                                         *)
(* A Route is an immutable plan.  A caller holding a Route and a VCursor   *)
(* calls TryExecute (blocking) or TryStreamExecute (streaming).  Every     *)
(* call is one action: the environment's answers to the VCursor calls made *)
(* during the call (resolution outcome, per-shard errors, arrival order)   *)
(* are drawn from small sets, the vschema and the shards' data are state.  *)
(***************************************************************************)
EXTENDS Integers, Sequences, FiniteSets, TLC

VARIABLES
    route,      \* the Route (plan): immutable after construction
    vschema,    \* topology, vindex mapping and routed tables seen by the VCursor
    data,       \* rows held by each shard
    warnings,   \* warnings recorded on the session
    counter,    \* partialSuccessScatterQueries
    pc,         \* caller position: "idle" or "returned"
    last        \* what the last call did and returned

vars == <<route, vschema, data, warnings, counter, pc, last>>

----------------------------------------------------------------------------
(* Bounds of the model *)

\* shards of the Route's keyspace
NumShards == 2
\* rows a shard may hold in the sort specification
MaxRows == 3
\* length of the key list of an IN route
MaxKeys == 2
\* calls counted by the partial-success counter before the model stops calling
MaxCounter == 2
\* warnings a session holds before the caller has to clear them
MaxWarnings == 2

----------------------------------------------------------------------------
(* Generic helpers *)

Nil == "nil"

Range(s) == {s[i] : i \in 1..Len(s)}

SeqsUpTo(S, n) == UNION {[1..k -> S] : k \in 0..n}

Perms(n) == {p \in [1..n -> 1..n] : \A i, j \in 1..n : p[i] = p[j] => i = j}

RECURSIVE Flatten(_)
Flatten(ss) == IF ss = <<>> THEN <<>> ELSE Head(ss) \o Flatten(Tail(ss))

RECURSIVE FilterSeq(_, _)
FilterSeq(s, keep) ==
    IF s = <<>> THEN <<>>
    ELSE IF Head(s) \in keep THEN <<Head(s)>> \o FilterSeq(Tail(s), keep)
         ELSE FilterSeq(Tail(s), keep)

IndexOf(s, x) == CHOOSE i \in 1..Len(s) : s[i] = x

\* number of occurrences of x in s
Count(s, x) == Cardinality({i \in 1..Len(s) : s[i] = x})

\* multiset equality of two sequences
SameMultiset(s, t) ==
    /\ Len(s) = Len(t)
    /\ \A x \in Range(s) \cup Range(t) : Count(s, x) = Count(t, x)

----------------------------------------------------------------------------
(* Bind variables: map[string]*querypb.BindVariable *)

BvSchemaName == "__vtschemaname"
BvReplaceSchemaName == "__replacevtschemaname"
ListVarName == "__vals"

EmptyBV == [k \in {} |-> 0]

StringBindVariable(s) == [Type |-> "VARCHAR", Value |-> s, Values |-> <<>>]
Int64BindVariable(s) == [Type |-> "INT64", Value |-> s, Values |-> <<>>]
TupleBindVariable(vals) == [Type |-> "TUPLE", Value |-> "", Values |-> vals]

SetBV(bv, k, v) == [x \in (DOMAIN bv) \cup {k} |-> IF x = k THEN v ELSE bv[x]]
DeleteBV(bv, k) == [x \in (DOMAIN bv) \ {k} |-> bv[x]]

----------------------------------------------------------------------------
(* Evaluation engine: values, coercion and null-safe comparison            *)
(* (evalengine/arithmetic.go).  A sqltypes.Value is [typ, val]; the val of  *)
(* a textual or binary value is the number its bytes spell (a numeral), so  *)
(* parsing it back gives val.  Integers are WordBits wide.                  *)

\* width of the machine integers of the model (the code's is 64)
WordBits == 4
TwoW == 2 ^ WordBits
MinInt == 0 - (2 ^ (WordBits - 1))
MaxInt == (2 ^ (WordBits - 1)) - 1

NULL == [typ |-> "NULL_TYPE", val |-> 0]
NewInt64(n) == [typ |-> "INT64", val |-> n]
NewUint64(n) == [typ |-> "UINT64", val |-> n]
NewVarChar(n) == [typ |-> "VARCHAR", val |-> n]

IsNull(t) == t = "NULL_TYPE"
IsSigned(t) == t \in {"INT8", "INT16", "INT24", "INT32", "INT64"}
IsUnsigned(t) == t \in {"UINT8", "UINT16", "UINT24", "UINT32", "UINT64"}
IsFloat(t) == t \in {"FLOAT32", "FLOAT64"}
IsIntegral(t) == IsSigned(t) \/ IsUnsigned(t)
IsNumber(t) == IsIntegral(t) \/ IsFloat(t) \/ t = "DECIMAL"
IsText(t) == t \in {"TEXT", "VARCHAR", "CHAR"}
IsBinary(t) == t \in {"BLOB", "VARBINARY", "BINARY"}

\* collations.Unknown, and the one collation the local environment knows
CollationUnknown == 0
CollationBinary == 63
KnownCollations == {CollationBinary}

UnsupportedComparisonError == "UnsupportedComparisonError"
UnsupportedCollationError == "UnsupportedCollationError"
InternalCoercionError == "InternalCoercionError"
\* the vterrors UNIMPLEMENTED error of CoerceTo and of nullSafeHashcode
UnimplementedError == "types does not support hashcode yet"

\* uint64(x) of a signed x, and int64(u) of an unsigned u
ToUint(x) == x % TwoW
ToInt(u) == IF u % TwoW > MaxInt THEN (u % TwoW) - TwoW ELSE u % TwoW

isByteComparable(t) ==
    \/ IsBinary(t)
    \/ t \in {"TIMESTAMP", "DATE", "TIME", "DATETIME", "ENUM", "SET", "JSON", "BIT"}

CoerceTo(v1, v2) ==
    IF v1 = v2 THEN [typ |-> v1, err |-> Nil]
    ELSE IF IsNull(v1) \/ IsNull(v2) THEN [typ |-> "NULL_TYPE", err |-> Nil]
    ELSE IF (IsText(v1) \/ IsBinary(v1)) /\ (IsText(v2) \/ IsBinary(v2))
         THEN [typ |-> "VARCHAR", err |-> Nil]
    ELSE IF IsNumber(v1) \/ IsNumber(v2) THEN
        IF IsText(v1) \/ IsBinary(v1) \/ IsText(v2) \/ IsBinary(v2)
            THEN [typ |-> "FLOAT64", err |-> Nil]
        ELSE IF IsFloat(v2) \/ v2 = "DECIMAL" \/ IsFloat(v1) \/ v1 = "DECIMAL"
            THEN [typ |-> "FLOAT64", err |-> Nil]
        ELSE IF IsSigned(v1) THEN
            IF IsUnsigned(v2) THEN [typ |-> "UINT64", err |-> Nil]
            ELSE IF IsSigned(v2) THEN [typ |-> "INT64", err |-> Nil]
            ELSE [typ |-> "NULL_TYPE", err |-> UnimplementedError]
        ELSE IF IsUnsigned(v1) THEN
            IF IsSigned(v2) \/ IsUnsigned(v2) THEN [typ |-> "UINT64", err |-> Nil]
            ELSE [typ |-> "NULL_TYPE", err |-> UnimplementedError]
        ELSE [typ |-> "NULL_TYPE", err |-> UnimplementedError]
    ELSE [typ |-> "NULL_TYPE", err |-> UnimplementedError]

\* EvalResult{typ, numval, bytes}; the zero EvalResult has typ 0 = NULL_TYPE
EvalResult(typ, numval, bytes) ==
    [typ |-> typ, numval |-> numval, bytes |-> bytes, err |-> Nil]
EvalError(e) == [typ |-> "NULL_TYPE", numval |-> 0, bytes |-> 0, err |-> e]

castTo(v, typ) ==
    IF typ = "NULL_TYPE" THEN EvalResult("NULL_TYPE", 0, 0)
    ELSE IF IsFloat(typ) \/ typ = "DECIMAL" THEN
        IF IsSigned(v.typ) \/ IsUnsigned(v.typ) \/ IsFloat(v.typ) \/ v.typ = "DECIMAL"
            THEN EvalResult("FLOAT64", v.val, 0)
        ELSE IF IsText(v.typ) \/ IsBinary(v.typ) THEN EvalResult("FLOAT64", v.val, 0)
        ELSE EvalError(InternalCoercionError)
    ELSE IF IsSigned(typ) THEN
        IF IsSigned(v.typ) THEN EvalResult("INT64", ToUint(v.val), 0)
        ELSE IF IsUnsigned(v.typ) THEN EvalResult("INT64", v.val, 0)
        ELSE EvalError(InternalCoercionError)
    ELSE IF IsUnsigned(typ) THEN
        IF IsSigned(v.typ) THEN EvalResult("UINT64", ToUint(v.val), 0)
        ELSE IF IsUnsigned(v.typ) THEN EvalResult("UINT64", v.val, 0)
        ELSE EvalError(InternalCoercionError)
    ELSE IF IsText(typ) \/ IsBinary(typ) THEN
        IF IsText(v.typ) \/ IsBinary(v.typ) THEN EvalResult(v.typ, 0, v.val)
        ELSE EvalError(InternalCoercionError)
    ELSE EvalError(InternalCoercionError)

Sign(a, b) == IF a < b THEN 0 - 1 ELSE IF a > b THEN 1 ELSE 0

\* compareNumeric on two EvalResults already cast to one type
compareNumeric(v1, v2) ==
    IF v1.typ = "INT64" THEN Sign(ToInt(v1.numval), ToInt(v2.numval))
    ELSE Sign(v1.numval, v2.numval)

\* NullsafeCompare once both values are cast to the type typ they coerce to
compareCast(v1, v2, collationID, typ, v1cast, v2cast) ==
    IF v1cast.err # Nil THEN [cmp |-> 0, err |-> v1cast.err]
    ELSE IF v2cast.err # Nil THEN [cmp |-> 0, err |-> v2cast.err]
    ELSE IF IsNumber(typ) THEN [cmp |-> compareNumeric(v1cast, v2cast), err |-> Nil]
    ELSE IF IsText(typ) \/ IsBinary(typ) THEN
        IF collationID = CollationUnknown \/ collationID \notin KnownCollations
            THEN [cmp |-> 0, err |-> UnsupportedCollationError]
        ELSE [cmp |-> Sign(v1.val, v2.val), err |-> Nil]
    ELSE [cmp |-> 0, err |-> UnsupportedComparisonError]

\* NullsafeCompare once CoerceTo has returned co
compareCoerced(v1, v2, collationID, co) ==
    IF co.err # Nil THEN [cmp |-> 0, err |-> co.err]
    ELSE compareCast(v1, v2, collationID, co.typ, castTo(v1, co.typ), castTo(v2, co.typ))

NullsafeCompare(v1, v2, collationID) ==
    IF IsNull(v1.typ) THEN
        IF IsNull(v2.typ) THEN [cmp |-> 0, err |-> Nil] ELSE [cmp |-> 0 - 1, err |-> Nil]
    ELSE IF IsNull(v2.typ) THEN [cmp |-> 1, err |-> Nil]
    ELSE IF isByteComparable(v1.typ) /\ isByteComparable(v2.typ)
        THEN [cmp |-> Sign(v1.val, v2.val), err |-> Nil]
    ELSE compareCoerced(v1, v2, collationID, CoerceTo(v1.typ, v2.typ))

----------------------------------------------------------------------------
(* Results, truncation, the row comparator and Route.sort *)

FieldNames == <<"c0", "c1">>

NilResult == [isNil |-> TRUE, Fields |-> <<>>, Rows |-> <<>>]
EmptyResult == [isNil |-> FALSE, Fields |-> <<>>, Rows |-> <<>>]
NewResult(fields, rows) == [isNil |-> FALSE, Fields |-> fields, Rows |-> rows]

Prefix(s, l) == IF l >= Len(s) THEN s ELSE SubSeq(s, 1, l)

\* sqltypes.Result.Truncate: 0 keeps the result, else the first l columns
Truncate(result, l) ==
    IF l = 0 \/ result.isNil THEN result
    ELSE NewResult(Prefix(result.Fields, l),
                   [i \in 1..Len(result.Rows) |-> Prefix(result.Rows[i], l)])

\* the column an OrderByParams compares on (columns are numbered from 0)
compareColumn(obp) ==
    IF obp.WeightStringCol >= 0 /\ obp.WeightStringCol # obp.Col THEN obp.WeightStringCol
    ELSE IF obp.StarColFixedIndex > obp.Col THEN obp.StarColFixedIndex
    ELSE obp.Col

\* comparer.compare(r1, r2): the comparison res is inverted when descending
directed(obp, res) ==
    IF res.err # Nil THEN res
    ELSE IF obp.Desc THEN [cmp |-> 0 - res.cmp, err |-> Nil]
    ELSE res

compare(obp, r1, r2) ==
    directed(obp, NullsafeCompare(r1[compareColumn(obp) + 1], r2[compareColumn(obp) + 1],
                                  obp.CollationID))

\* the less closure of Route.sort from comparer k on; err is the captured err
RECURSIVE lessFrom(_, _, _, _)
\* comparer k having returned c
lessAfter(orderBy, k, r1, r2, c) ==
    IF c.err # Nil THEN [lt |-> TRUE, err |-> c.err]
    ELSE IF c.cmp = 0 THEN lessFrom(orderBy, k + 1, r1, r2)
    ELSE [lt |-> c.cmp < 0, err |-> Nil]

lessFrom(orderBy, k, r1, r2) ==
    IF k > Len(orderBy) THEN [lt |-> TRUE, err |-> Nil]
    ELSE lessAfter(orderBy, k, r1, r2, compare(orderBy[k], r1, r2))

\* a closure that looks at the first OrderBy parameter only
lessFirstKeyOnly(orderBy, err, r1, r2) ==
    IF err # Nil THEN [lt |-> TRUE, err |-> err]
    ELSE lessFrom(SubSeq(orderBy, 1, 1), 1, r1, r2)

\* a closure that compares again after an error, so that a later comparison
\* overwrites it
lessOverwrite(orderBy, err, r1, r2) == lessFrom(orderBy, 1, r1, r2)

less(orderBy, err, r1, r2) ==
    IF err # Nil THEN [lt |-> TRUE, err |-> err]
    ELSE lessFrom(orderBy, 1, r1, r2)

Swap(rows, i, j) ==
    [k \in 1..Len(rows) |-> IF k = i THEN rows[j] ELSE IF k = j THEN rows[i] ELSE rows[k]]

\* sort.Slice on a slice of fewer than 7 elements is an insertion sort:
\*   for i := a+1; i < b; i++ { for j := i; j > a && less(j, j-1); j-- { swap(j, j-1) } }
RECURSIVE insertionInner(_, _, _)
\* less(j, j-1) having returned l
insertionSwap(orderBy, st, j, l) ==
    IF l.lt
    THEN insertionInner(orderBy, [rows |-> Swap(st.rows, j, j - 1), err |-> l.err], j - 1)
    ELSE [rows |-> st.rows, err |-> l.err]

insertionInner(orderBy, st, j) ==
    IF j <= 1 THEN st
    ELSE insertionSwap(orderBy, st, j, less(orderBy, st.err, st.rows[j], st.rows[j - 1]))

RECURSIVE insertionOuter(_, _, _)
insertionOuter(orderBy, st, i) ==
    IF i > Len(st.rows) THEN st
    ELSE insertionOuter(orderBy, insertionInner(orderBy, st, i), i + 1)

sortSlice(orderBy, rows) == insertionOuter(orderBy, [rows |-> rows, err |-> Nil], 2)

\* Route.sort: out is a shallow copy of in, so out.Rows and in.Rows are one
\* backing array and sort.Slice reorders both; inRows is in.Rows afterwards
sortedRows(in, st) ==
    [out |-> NewResult(in.Fields, st.rows), err |-> st.err, inRows |-> st.rows]

sort(rt, in) == sortedRows(in, sortSlice(rt.OrderBy, in.Rows))

----------------------------------------------------------------------------
(* The VCursor: destination resolution, vindex lookup and shard execution. *)
(* vs is the vschema (state), db the shards' rows (state), env the answers *)
(* the environment gives during one call.                                  *)

QueryText == "Query"
FieldQueryText == "FieldQuery"

BadDb == "BadDb"
ResolveError == "ResolveError"
NoShardError == "NoShardInKeyspace"

DestinationAnyShard == [kind |-> "AnyShard", id |-> 0]
DestinationAllShards == [kind |-> "AllShards", id |-> 0]
DestinationNone == [kind |-> "None", id |-> 0]
DestinationKeyspaceID(n) == [kind |-> "KeyspaceID", id |-> n]

ResolvedShard(ks, shard) == [ks |-> ks, shard |-> shard]

\* entries of the log of VCursor calls of one Route call; arg is the keyspace
\* resolved or the table looked up
LogEntry(call, arg, rss, queries) ==
    [call |-> call, arg |-> arg, rss |-> rss, queries |-> queries]
LogSetContextTimeout == LogEntry("SetContextTimeout", "", <<>>, <<>>)
LogCancel == LogEntry("cancel", "", <<>>, <<>>)

BoundQuery(sql, bv) == [Sql |-> sql, BindVariables |-> bv]

\* the shards a destination resolves to, among the keyspace's shards
destinationResolve(env, shards, d) ==
    IF d.kind = "AllShards" THEN shards
    ELSE IF d.kind = "AnyShard" THEN <<shards[((env.anyPick - 1) % Len(shards)) + 1]>>
    ELSE IF d.kind = "KeyspaceID" THEN <<shards[((d.id - 1) % Len(shards)) + 1]>>
    ELSE <<>>

\* addShard of ResolveDestinations: a shard is listed once, ids group under it
RECURSIVE addShards(_, _, _, _, _)
addShards(acc, ks, shardList, hasIds, id) ==
    IF shardList = <<>> THEN acc
    ELSE LET rs == ResolvedShard(ks, Head(shardList))
             known == rs \in Range(acc.rss)
             rss1 == IF known THEN acc.rss ELSE Append(acc.rss, rs)
             vals1 == IF known \/ ~hasIds THEN acc.values ELSE Append(acc.values, <<>>)
             s == IndexOf(rss1, rs)
             vals2 == IF hasIds THEN [vals1 EXCEPT ![s] = Append(@, id)] ELSE vals1
         IN  addShards([rss |-> rss1, values |-> vals2], ks, Tail(shardList), hasIds, id)

RECURSIVE resolveFrom(_, _, _, _, _, _, _)
resolveFrom(acc, env, ks, shards, hasIds, ids, destinations) ==
    IF destinations = <<>> THEN acc
    ELSE resolveFrom(
            addShards(acc, ks, destinationResolve(env, shards, Head(destinations)),
                      hasIds, IF hasIds THEN Head(ids) ELSE 0),
            env, ks, shards, hasIds, IF hasIds THEN Tail(ids) ELSE ids, Tail(destinations))

\* vcursor.ResolveDestinations(keyspace, ids, destinations)
ResolveDestinations(env, vs, ks, hasIds, ids, destinations) ==
    LET fail(e) == [rss |-> <<>>, values |-> <<>>, err |-> e]
    IN  IF ks \notin DOMAIN vs.shards THEN fail(BadDb)
        ELSE IF ks \in env.unavailable THEN fail(ResolveError)
        ELSE IF vs.shards[ks] = <<>> /\ DestinationAnyShard \in Range(destinations)
            THEN fail(NoShardError)
        ELSE LET r == resolveFrom([rss |-> <<>>, values |-> <<>>], env, ks, vs.shards[ks],
                                  hasIds, ids, destinations)
             IN  [rss |-> r.rss, values |-> r.values, err |-> Nil]

LogResolve(ks) == LogEntry("ResolveDestinations", ks, <<>>, <<>>)

ContextCanceled == "context canceled"

\* the error a failing shard answers with: the cancellation of the call's
\* context (cancelled, or its deadline expired), or an error of its own
ShardError(env, rs) ==
    IF env.canceled THEN ContextCanceled
    ELSE IF rs.shard = "s1" THEN "error s1"
    ELSE IF rs.shard = "s2" THEN "error s2"
    ELSE IF rs.shard = "s3" THEN "error s3"
    ELSE IF rs.shard = "s4" THEN "error s4"
    ELSE "error 0"

\* the indexes 1..n ordered by their rank under the permutation p
RankOrder(p, n) ==
    [k \in 1..n |->
        CHOOSE i \in 1..n : Cardinality({j \in 1..n : p[j] < p[i]}) = k - 1]

\* the indexes 1..n in the order the shards answer
ArrivalOrder(env, n) == RankOrder(env.arrival, n)

shardRows(db, rs, sql) ==
    IF sql = QueryText /\ rs \in DOMAIN db THEN db[rs] ELSE <<>>

\* vcursor.ExecuteMultiShard(rss, queries, rollbackOnError, autocommit): the
\* rows of the shards that answered, in arrival order, and one error slot per
\* shard (nil for a shard that answered); errs is nil when no shard failed
ExecuteMultiShard(env, db, rss, queries) ==
    LET n == Len(rss)
        order == ArrivalOrder(env, n)
        failed(i) == rss[i] \in env.failed
        rows == Flatten([k \in 1..n |->
                    IF failed(order[k]) THEN <<>>
                    ELSE shardRows(db, rss[order[k]], queries[order[k]].Sql)])
        list == [i \in 1..n |-> IF failed(i) THEN ShardError(env, rss[i]) ELSE Nil]
    IN  [result |-> NewResult(FieldNames, rows),
         errsNil |-> \A i \in 1..n : ~failed(i),
         errs |-> list]

LogExecute(rss, queries) == LogEntry("ExecuteMultiShard", "", rss, queries)

\* vterrors.Aggregate
Aggregate(errs) ==
    IF Len(errs) = 0 THEN Nil
    ELSE IF Len(errs) = 1 THEN errs[1]
    ELSE "aggregated errors"

\* the session warning made from a shard error
QueryWarning(err) == [Code |-> "ERUnknownError", Message |-> err]

----------------------------------------------------------------------------
(* Parameter building: the shards of a call and the bind variables of each *)

\* what a params function returns: rss, bvs, err, the caller's bind map as the
\* function left it, and the VCursor calls it made
Params(rss, bvs, err, bv, log) ==
    [rss |-> rss, bvs |-> bvs, err |-> err, bindVars |-> bv, log |-> log]

\* the binds reach the first shard only
replicateOnce(rss, bindVars) == [i \in 1..Len(rss) |-> IF i = 1 THEN bindVars ELSE EmptyBV]

\* multiBindVars[i] = bindVars for every resolved shard
replicate(rss, bindVars) == [i \in 1..Len(rss) |-> bindVars]

paramsAnyShard(env, vs, rt, bindVars) ==
    LET r == ResolveDestinations(env, vs, rt.Keyspace, FALSE, <<>>, <<DestinationAnyShard>>)
        log == <<LogResolve(rt.Keyspace)>>
    IN  IF r.err # Nil THEN Params(<<>>, <<>>, r.err, bindVars, log)
        ELSE Params(r.rss, replicate(r.rss, bindVars), Nil, bindVars, log)

paramsAllShards(env, vs, rt, bindVars) ==
    LET r == ResolveDestinations(env, vs, rt.Keyspace, FALSE, <<>>, <<DestinationAllShards>>)
        log == <<LogResolve(rt.Keyspace)>>
    IN  IF r.err # Nil THEN Params(<<>>, <<>>, r.err, bindVars, log)
        ELSE Params(r.rss, replicate(r.rss, bindVars), Nil, bindVars, log)

ValueError == "ValueError"
VindexError == "VindexError"

\* RouteValue.ResolveList: an inline tuple, or a list bind variable
ResolveList(value, bindVars) ==
    IF value.kind = "Literal" THEN [vals |-> value.vals, err |-> Nil]
    ELSE IF value.key \in DOMAIN bindVars /\ bindVars[value.key].Type = "TUPLE"
        THEN [vals |-> bindVars[value.key].Values, err |-> Nil]
    ELSE [vals |-> <<>>, err |-> ValueError]

\* RouteValue.ResolveValue: a single value
ResolveValue(value, bindVars) ==
    IF value.kind = "Literal" /\ Len(value.vals) = 1 THEN [val |-> value.vals[1], err |-> Nil]
    ELSE [val |-> 0, err |-> ValueError]

\* Vindex.Map(vcursor, keys): one destination per key
VindexMap(env, vs, keys) ==
    IF env.vindexErr THEN [destinations |-> <<>>, err |-> VindexError]
    ELSE [destinations |-> [i \in 1..Len(keys) |-> vs.vindex[keys[i]]], err |-> Nil]

resolveShards(env, vs, rt, vindexKeys) ==
    LET ids == vindexKeys
        m == VindexMap(env, vs, vindexKeys)
    IN  IF m.err # Nil THEN [rss |-> <<>>, values |-> <<>>, err |-> m.err, log |-> <<>>]
        ELSE LET r == ResolveDestinations(env, vs, rt.Keyspace, TRUE, ids, m.destinations)
             IN  [rss |-> r.rss, values |-> r.values, err |-> r.err,
                  log |-> <<LogResolve(rt.Keyspace)>>]

\* every shard is sent the values of the first shard
shardVarsFirst(bv, mapVals) ==
    [i \in 1..Len(mapVals) |-> SetBV(bv, ListVarName, TupleBindVariable(mapVals[1]))]

shardVars(bv, mapVals) ==
    [i \in 1..Len(mapVals) |-> SetBV(bv, ListVarName, TupleBindVariable(mapVals[i]))]

paramsSelectEqual(env, vs, rt, bindVars) ==
    LET v == ResolveValue(rt.Value, bindVars)
        r == resolveShards(env, vs, rt, <<v.val>>)
    IN  IF v.err # Nil THEN Params(<<>>, <<>>, v.err, bindVars, <<>>)
        ELSE IF r.err # Nil THEN Params(<<>>, <<>>, r.err, bindVars, r.log)
        ELSE Params(r.rss, replicate(r.rss, bindVars), Nil, bindVars, r.log)

paramsSelectIn(env, vs, rt, bindVars) ==
    LET v == ResolveList(rt.Value, bindVars)
        r == resolveShards(env, vs, rt, v.vals)
    IN  IF v.err # Nil THEN Params(<<>>, <<>>, v.err, bindVars, <<>>)
        ELSE IF r.err # Nil THEN Params(<<>>, <<>>, r.err, bindVars, r.log)
        ELSE Params(r.rss, shardVars(bindVars, r.values), Nil, bindVars, r.log)

paramsSelectMultiEqual(env, vs, rt, bindVars) ==
    LET v == ResolveList(rt.Value, bindVars)
        r == resolveShards(env, vs, rt, v.vals)
    IN  IF v.err # Nil THEN Params(<<>>, <<>>, v.err, bindVars, <<>>)
        ELSE IF r.err # Nil THEN Params(<<>>, <<>>, r.err, bindVars, r.log)
        ELSE Params(r.rss, replicate(r.rss, bindVars), Nil, bindVars, r.log)

----------------------------------------------------------------------------
(* information_schema routing (opcode SelectDBA) *)

SystemSchemas == {"information_schema", "performance_schema", "sys", "mysql"}
SystemSchema(name) == name \in SystemSchemas

EvalErrorMissingBindVar == "EvalError"
MultiSchemaError == "specifying two different database in the query is not supported"
CrossKeyspaceError == "cannot send the query to multiple keyspace due to different table_name"
FindError == "FindRoutedTableError"
NoKeyspace == "<nil>"

Literal(s) == [kind |-> "Literal", val |-> s, key |-> ""]
BindVariableExpr(k) == [kind |-> "BindVariable", val |-> "", key |-> k]

\* Expr.Evaluate(env) followed by Value().ToString()
Evaluate(expr, bindVars) ==
    IF expr.kind = "Literal" THEN [val |-> expr.val, err |-> Nil]
    ELSE IF expr.key \in DOMAIN bindVars THEN [val |-> bindVars[expr.key].Value, err |-> Nil]
    ELSE [val |-> "", err |-> EvalErrorMissingBindVar]

RECURSIVE SetToSeq(_)
SetToSeq(S) ==
    IF S = {} THEN <<>>
    ELSE LET x == CHOOSE y \in S : TRUE IN <<x>> \o SetToSeq(S \ {x})

\* the keys of a Go map in the order one `range` visits them
RangeOrder(S, p) ==
    LET base == SetToSeq(S)
        order == RankOrder(p, Len(base))
    IN  [k \in 1..Len(base) |-> base[order[k]]]

\* vcursor.FindRoutedTable(tbl)
FindRoutedTable(env, vs, qualifier, name) ==
    IF env.findErr # Nil THEN [found |-> FALSE, ks |-> NoKeyspace, name |-> "", err |-> env.findErr]
    ELSE IF <<qualifier, name>> \in DOMAIN vs.routed
        THEN [found |-> TRUE, ks |-> vs.routed[<<qualifier, name>>].ks,
              name |-> vs.routed[<<qualifier, name>>].name, err |-> Nil]
    ELSE [found |-> FALSE, ks |-> NoKeyspace, name |-> "", err |-> Nil]

LogFind(name) == LogEntry("FindRoutedTable", name, <<>>, <<>>)

\* the replacement flag set while the schema name is kept
setReplaceSchemaNameKeep(bindVars) ==
    SetBV(bindVars, BvReplaceSchemaName, Int64BindVariable("1"))

setReplaceSchemaName(bindVars) ==
    SetBV(DeleteBV(bindVars, BvSchemaName), BvReplaceSchemaName, Int64BindVariable("1"))

\* the loop of paramsRoutedTable over the table names still to visit
RECURSIVE routedTableFrom(_, _, _, _, _, _, _, _)
routedTableFrom(env, vs, bindVars, tableSchema, tableNames, keys, routedKs, log) ==
    IF keys = <<>>
    THEN [rss |-> <<>>, isNil |-> TRUE, err |-> Nil, bindVars |-> bindVars, log |-> log]
    ELSE
        LET tblBvName == Head(keys)
            tableName == tableNames[tblBvName]
            f == FindRoutedTable(env, vs, tableSchema, tableName)
            log1 == Append(log, LogFind(tableName))
            routedKs1 == IF routedKs = NoKeyspace THEN f.ks ELSE routedKs
            r == ResolveDestinations(env, vs, f.ks, FALSE, <<>>, <<DestinationAnyShard>>)
            bv1 == SetBV(bindVars, tblBvName, StringBindVariable(f.name))
            bv2 == IF tableSchema # "" THEN setReplaceSchemaName(bv1) ELSE bv1
        IN  IF f.err # Nil
            THEN [rss |-> <<>>, isNil |-> TRUE, err |-> f.err, bindVars |-> bindVars, log |-> log1]
            ELSE IF f.found THEN
                IF routedKs1 # f.ks
                THEN [rss |-> <<>>, isNil |-> TRUE, err |-> CrossKeyspaceError,
                      bindVars |-> bindVars, log |-> log1]
                ELSE [rss |-> r.rss, isNil |-> r.err # Nil, err |-> r.err, bindVars |-> bv2,
                      log |-> Append(log1, LogResolve(f.ks))]
            ELSE routedTableFrom(env, vs,
                    SetBV(bindVars, tblBvName, StringBindVariable(tableName)),
                    tableSchema, tableNames, Tail(keys), routedKs1, log1)

paramsRoutedTable(env, vs, bindVars, tableSchema, tableNames) ==
    routedTableFrom(env, vs, bindVars, tableSchema, tableNames,
                    RangeOrder(DOMAIN tableNames, env.mapOrder2), NoKeyspace, <<>>)

\* the loop of routeInfoSchemaQuery over SysTableTableSchema
RECURSIVE evalTableSchemas(_, _, _)
evalTableSchemas(exprs, bindVars, specifiedKS) ==
    IF exprs = <<>> THEN [ks |-> specifiedKS, err |-> Nil]
    ELSE LET result == Evaluate(Head(exprs), bindVars)
             ks == result.val
             specified1 == IF specifiedKS = "" THEN ks ELSE specifiedKS
         IN  IF result.err # Nil THEN [ks |-> specifiedKS, err |-> result.err]
             ELSE IF specified1 # ks THEN [ks |-> specified1, err |-> MultiSchemaError]
             ELSE evalTableSchemas(Tail(exprs), bindVars, specified1)

\* the loop of routeInfoSchemaQuery over SysTableTableName
RECURSIVE evalTableNames(_, _, _, _)
evalTableNames(keys, exprs, bindVars, tableNames) ==
    IF keys = <<>> THEN [tableNames |-> tableNames, bindVars |-> bindVars, err |-> Nil]
    ELSE LET tblBvName == Head(keys)
             val == Evaluate(exprs[tblBvName], bindVars)
         IN  IF val.err # Nil
             THEN [tableNames |-> tableNames, bindVars |-> bindVars, err |-> val.err]
             ELSE evalTableNames(Tail(keys), exprs,
                     SetBV(bindVars, tblBvName, StringBindVariable(val.val)),
                     SetBV(tableNames, tblBvName, val.val))

\* a routing decision: the shards, the error, the caller's map and the calls made
Routing(rss, err, bindVars, log) ==
    [rss |-> rss, err |-> err, bindVars |-> bindVars, log |-> log]

\* the defaultRoute closure: AnyShard of the Route's own keyspace
defaultRoute(env, vs, rt, bindVars, log) ==
    LET r == ResolveDestinations(env, vs, rt.Keyspace, FALSE, <<>>, <<DestinationAnyShard>>)
    IN  Routing(r.rss, r.err, bindVars, Append(log, LogResolve(rt.Keyspace)))

\* a fallback that replaces the schema name as the resolved case does
routeBySchemaUnbound(env, vs, rt, specifiedKS, bindVars, log, d) ==
    IF specifiedKS = "" THEN defaultRoute(env, vs, rt, bindVars, log)
    ELSE IF d.err # Nil
        THEN defaultRoute(env, vs, rt, setReplaceSchemaName(bindVars),
                Append(log, LogResolve(specifiedKS)))
    ELSE Routing(d.rss, Nil, setReplaceSchemaName(bindVars),
                 Append(log, LogResolve(specifiedKS)))

\* routeInfoSchemaQuery when no routed table decided: the schema name alone,
\* d being the resolution of AnyShard of the keyspace of that name
routeBySchema(env, vs, rt, specifiedKS, bindVars, log, d) ==
    IF specifiedKS = "" THEN defaultRoute(env, vs, rt, bindVars, log)
    ELSE IF d.err # Nil
        THEN defaultRoute(env, vs, rt,
                SetBV(bindVars, BvSchemaName, StringBindVariable(specifiedKS)),
                Append(log, LogResolve(specifiedKS)))
    ELSE Routing(d.rss, Nil, setReplaceSchemaName(bindVars),
                 Append(log, LogResolve(specifiedKS)))

\* routeInfoSchemaQuery once paramsRoutedTable has returned p
routeByTable(env, vs, rt, specifiedKS, p) ==
    IF p.err # Nil THEN
        IF p.err = BadDb THEN defaultRoute(env, vs, rt, p.bindVars, p.log)
        ELSE Routing(<<>>, p.err, p.bindVars, p.log)
    ELSE IF ~p.isNil THEN Routing(p.rss, Nil, p.bindVars, p.log)
    ELSE routeBySchema(env, vs, rt, specifiedKS, p.bindVars, p.log,
            ResolveDestinations(env, vs, specifiedKS, FALSE, <<>>, <<DestinationAnyShard>>))

\* routeInfoSchemaQuery once the table names are evaluated into t
routeByNames(env, vs, rt, specifiedKS, t) ==
    IF t.err # Nil THEN Routing(<<>>, t.err, t.bindVars, <<>>)
    ELSE IF SystemSchema(specifiedKS) THEN defaultRoute(env, vs, rt, t.bindVars, <<>>)
    ELSE IF DOMAIN t.tableNames # {}
        THEN routeByTable(env, vs, rt, specifiedKS,
                paramsRoutedTable(env, vs, t.bindVars, specifiedKS, t.tableNames))
    ELSE routeBySchema(env, vs, rt, specifiedKS, t.bindVars, <<>>,
            ResolveDestinations(env, vs, specifiedKS, FALSE, <<>>, <<DestinationAnyShard>>))

\* routeInfoSchemaQuery once the schema expressions are evaluated into s
routeBySchemas(env, vs, rt, bindVars, s) ==
    IF s.err # Nil THEN Routing(<<>>, s.err, bindVars, <<>>)
    ELSE routeByNames(env, vs, rt, s.ks,
            evalTableNames(RangeOrder(DOMAIN rt.SysTableTableName, env.mapOrder1),
                           rt.SysTableTableName,
                           IF s.ks # ""
                           THEN SetBV(bindVars, BvSchemaName, StringBindVariable(s.ks))
                           ELSE bindVars,
                           EmptyBV))

routeInfoSchemaQuery(env, vs, rt, bindVars) ==
    IF DOMAIN rt.SysTableTableName = {} /\ Len(rt.SysTableTableSchema) = 0
        THEN defaultRoute(env, vs, rt, bindVars, <<>>)
    ELSE routeBySchemas(env, vs, rt, bindVars,
            evalTableSchemas(rt.SysTableTableSchema, bindVars, ""))

\* paramsSystemQuery once routeInfoSchemaQuery has returned r: one map, the caller's
systemParams(r) ==
    IF r.err # Nil THEN Params(<<>>, <<>>, r.err, r.bindVars, r.log)
    ELSE Params(r.rss, <<r.bindVars>>, Nil, r.bindVars, r.log)

paramsSystemQuery(env, vs, rt, bindVars) ==
    systemParams(routeInfoSchemaQuery(env, vs, rt, bindVars))

----------------------------------------------------------------------------
(* Route.TryExecute *)

UnsupportedRouteError == "unsupported query route"
NoShardsError == "no shards for keyspace"

\* what a call hands back: the result and error, the caller's bind map after
\* the call, the VCursor calls made, the warnings recorded, the increment of
\* the counter, the shards and binds dispatched, the result the VCursor
\* returned (received) and what that result's Rows hold after the call (kept)
Outcome(result, err, bv, log, warns, add, rss, bvs, received, kept) ==
    [result |-> result, err |-> err, bindVars |-> bv, log |-> log, warns |-> warns,
     add |-> add, rss |-> rss, bvs |-> bvs, received |-> received, kept |-> kept,
     delivered |-> <<>>]

Failure(err, bv, log, rss, bvs) ==
    Outcome(NilResult, err, bv, log, <<>>, 0, rss, bvs, NilResult, NilResult)

\* the switch on route.Opcode shared by executeInternal and TryStreamExecute
selectParams(env, vs, rt, bindVars) ==
    IF rt.Opcode = "SelectDBA" THEN paramsSystemQuery(env, vs, rt, bindVars)
    ELSE IF rt.Opcode \in {"SelectUnsharded", "SelectNext", "SelectReference"}
        THEN paramsAnyShard(env, vs, rt, bindVars)
    ELSE IF rt.Opcode = "SelectScatter" THEN paramsAllShards(env, vs, rt, bindVars)
    ELSE IF rt.Opcode \in {"SelectEqual", "SelectEqualUnique"}
        THEN paramsSelectEqual(env, vs, rt, bindVars)
    ELSE IF rt.Opcode = "SelectIN" THEN paramsSelectIn(env, vs, rt, bindVars)
    ELSE IF rt.Opcode = "SelectMultiEqual" THEN paramsSelectMultiEqual(env, vs, rt, bindVars)
    ELSE IF rt.Opcode = "SelectNone" THEN Params(<<>>, <<>>, Nil, bindVars, <<>>)
    ELSE Params(<<>>, <<>>, UnsupportedRouteError, bindVars, <<>>)

getQueries(query, bvs) == [i \in 1..Len(bvs) |-> BoundQuery(query, bvs[i])]

\* the error list kept as the Cursor returned it
keepNilErrors(errs) == errs

filterOutNilErrors(errs) == FilterSeq(errs, Range(errs) \ {Nil})

\* the Route's Query sent where the given query was asked for
execShardQuery(env, db, query, bindVars, rs) ==
    LET x == ExecuteMultiShard(env, db, <<rs>>, <<BoundQuery(QueryText, bindVars)>>)
    IN  [result |-> x.result, err |-> Aggregate(IF x.errsNil THEN <<>> ELSE x.errs),
         log |-> <<LogExecute(<<rs>>, <<BoundQuery(QueryText, bindVars)>>)>>]

\* execShard: one query on one shard, the errors aggregated
execShard(env, db, query, bindVars, rs) ==
    LET x == ExecuteMultiShard(env, db, <<rs>>, <<BoundQuery(query, bindVars)>>)
    IN  [result |-> x.result, err |-> Aggregate(IF x.errsNil THEN <<>> ELSE x.errs),
         log |-> <<LogExecute(<<rs>>, <<BoundQuery(query, bindVars)>>)>>]

\* Route.GetFields
GetFields(env, vs, db, rt, bindVars) ==
    LET r == ResolveDestinations(env, vs, rt.Keyspace, FALSE, <<>>, <<DestinationAnyShard>>)
        log1 == <<LogResolve(rt.Keyspace)>>
        x == execShard(env, db, rt.FieldQuery, bindVars, r.rss[1])
    IN  IF r.err # Nil THEN [result |-> NilResult, err |-> r.err, log |-> log1]
        ELSE IF Len(r.rss) # 1 THEN [result |-> NilResult, err |-> NoShardsError, log |-> log1]
        ELSE IF x.err # Nil THEN [result |-> NilResult, err |-> x.err, log |-> log1 \o x.log]
        ELSE [result |-> Truncate(x.result, rt.TruncateColumnCount), err |-> Nil,
              log |-> log1 \o x.log]

\* tests that look at the flag only, or at the number of errors only
surfaceErrorsFlagOnly(rt, errs, rss) == ~rt.ScatterErrorsAsWarnings
surfaceErrorsAllFailedOnly(rt, errs, rss) == Len(errs) = Len(rss)

\* the test of executeInternal that surfaces the shard errors
surfaceErrors(rt, errs, rss) ==
    ~rt.ScatterErrorsAsWarnings \/ Len(errs) = Len(rss)

recordWarnings(errs) == [i \in 1..Len(errs) |-> QueryWarning(errs[i])]

\* executeInternal after the sort, when OrderBy is not empty
sortedOutcome(p, x, log, warns, add, sorted) ==
    Outcome(sorted.out, sorted.err, p.bindVars, log, warns, add,
            p.rss, p.bvs, x.result, NewResult(x.result.Fields, sorted.inRows))

\* executeInternal once the shard errors are dealt with
sortResult(rt, p, x, log, warns, add) ==
    IF Len(rt.OrderBy) = 0
        THEN Outcome(x.result, Nil, p.bindVars, log, warns, add,
                     p.rss, p.bvs, x.result, x.result)
    ELSE sortedOutcome(p, x, log, warns, add, sort(rt, x.result))

\* executeInternal once ExecuteMultiShard has returned x, errs being the
\* errors that are not nil
handleErrors(rt, p, x, log, errs) ==
    IF ~x.errsNil /\ surfaceErrors(rt, errs, p.rss)
        THEN Outcome(NilResult, Aggregate(errs), p.bindVars, log, <<>>, 0,
                     p.rss, p.bvs, x.result, x.result)
    ELSE sortResult(rt, p, x, log,
                    IF x.errsNil THEN <<>> ELSE recordWarnings(errs),
                    IF x.errsNil THEN 0 ELSE 1)

handleResult(rt, p, x, log) == handleErrors(rt, p, x, log, filterOutNilErrors(x.errs))

\* executeInternal sending the queries to the resolved shards
dispatch(env, db, rt, p, queries) ==
    handleResult(rt, p, ExecuteMultiShard(env, db, p.rss, queries),
                 Append(p.log, LogExecute(p.rss, queries)))

\* the "No route" return of executeInternal when fields are wanted
fieldsOutcome(p, g) ==
    Outcome(g.result, g.err, p.bindVars, p.log \o g.log, <<>>, 0,
            <<>>, <<>>, NilResult, NilResult)

\* executeInternal once the opcode switch has returned p
executeParams(env, vs, db, rt, wantfields, p) ==
    IF p.err # Nil THEN Failure(p.err, p.bindVars, p.log, <<>>, <<>>)
    ELSE IF Len(p.rss) = 0 THEN
        IF wantfields THEN fieldsOutcome(p, GetFields(env, vs, db, rt, p.bindVars))
        ELSE Outcome(EmptyResult, Nil, p.bindVars, p.log, <<>>, 0,
                     <<>>, <<>>, NilResult, NilResult)
    ELSE dispatch(env, db, rt, p, getQueries(rt.Query, p.bvs))

executeInternal(env, vs, db, rt, bindVars, wantfields) ==
    executeParams(env, vs, db, rt, wantfields, selectParams(env, vs, rt, bindVars))

\* a cancel that runs on the successful return only
deferCancelOnSuccess(rt, err) ==
    IF rt.QueryTimeout # 0 /\ err = Nil THEN <<LogCancel>> ELSE <<>>

\* the deferred cancel of the deadline
deferCancel(rt, err) == IF rt.QueryTimeout # 0 THEN <<LogCancel>> ELSE <<>>

setContextTimeout(rt) == IF rt.QueryTimeout # 0 THEN <<LogSetContextTimeout>> ELSE <<>>

\* the calls on the Cursor of a call that ran r, deadline and cancel included
withDeadline(rt, r) == setContextTimeout(rt) \o r.log \o deferCancel(rt, r.err)

\* the return of TryExecute once executeInternal has returned r
truncated(rt, r) ==
    IF r.err # Nil THEN [r EXCEPT !.result = NilResult, !.log = withDeadline(rt, r)]
    ELSE [r EXCEPT !.result = Truncate(r.result, rt.TruncateColumnCount),
                   !.log = withDeadline(rt, r)]

TryExecute(env, vs, db, rt, bindVars, wantfields) ==
    truncated(rt, executeInternal(env, vs, db, rt, bindVars, wantfields))

----------------------------------------------------------------------------
(* Route.TryStreamExecute *)

StreamingError == "query cannot be used for streaming"
CallbackError == "CallbackError"

\* the caller's callback: it fails on every result when env.callbackErr
callback(env) == IF env.callbackErr THEN CallbackError ELSE Nil

\* vcursor.StreamExecuteMulti: every shard that answers streams its rows as
\* one result to the callback; the errors are those of the shards that failed,
\* a callback error being the error of the shard whose result it refused
StreamExecuteMulti(env, db, rt, rss, bvs) ==
    LET n == Len(rss)
        order == ArrivalOrder(env, n)
        failed(i) == rss[i] \in env.failed
        chunks == Flatten([k \in 1..n |->
                     IF failed(order[k]) THEN <<>>
                     ELSE <<Truncate(NewResult(FieldNames, shardRows(db, rss[order[k]], rt.Query)),
                                     rt.TruncateColumnCount)>>])
        errs == Flatten([k \in 1..n |->
                     IF failed(order[k]) THEN <<ShardError(env, rss[order[k]])>>
                     ELSE IF callback(env) # Nil THEN <<callback(env)>>
                     ELSE <<>>])
    IN  [delivered |-> chunks, errs |-> errs]

\* rows merged by the comparator of orderBy, equal rows in arrival order
mergeAfter(rows, rest) == [rows |-> <<Head(rows)>> \o rest.rows, err |-> rest.err]

RECURSIVE mergeInsert(_, _, _)
\* the row goes before the head of rows when it is strictly less (l and not c)
mergeBefore(orderBy, rows, row, l, c) ==
    IF l.err # Nil THEN [rows |-> rows, err |-> l.err]
    ELSE IF l.lt /\ ~c.lt THEN [rows |-> <<row>> \o rows, err |-> Nil]
    ELSE mergeAfter(rows, mergeInsert(orderBy, Tail(rows), row))

mergeInsert(orderBy, rows, row) ==
    IF rows = <<>> THEN [rows |-> <<row>>, err |-> Nil]
    ELSE mergeBefore(orderBy, rows, row, lessFrom(orderBy, 1, row, Head(rows)),
                     lessFrom(orderBy, 1, Head(rows), row))

RECURSIVE mergeRows(_, _, _)
mergeRows(orderBy, acc, rows) ==
    IF rows = <<>> \/ acc.err # Nil THEN acc
    ELSE mergeRows(orderBy, mergeInsert(orderBy, acc.rows, Head(rows)), Tail(rows))

\* vcursor.StreamExecutePrimitive on the MergeSort of the shard routes
\* MergeSort's outcome: errs are the failed streams' errors, merged the merge of the rest
mergedOutcome(env, rt, n, errs, merged) ==
    IF errs # <<>> /\ (~rt.ScatterErrorsAsWarnings \/ Len(errs) = n)
    THEN [delivered |-> <<>>, err |-> Aggregate(errs), warns |-> <<>>, add |-> 0]
    ELSE IF merged.err # Nil
    THEN [delivered |-> <<>>, err |-> merged.err, warns |-> recordWarnings(errs),
          add |-> IF errs # <<>> THEN 1 ELSE 0]
    ELSE [delivered |-> <<Truncate(NewResult(FieldNames, merged.rows), rt.TruncateColumnCount)>>,
          err |-> callback(env), warns |-> recordWarnings(errs),
          add |-> IF errs # <<>> THEN 1 ELSE 0]

\* the streams in arrival order
mergeStreams(env, db, rt, rss, order) ==
    mergedOutcome(env, rt, Len(rss),
        Flatten([k \in 1..Len(rss) |->
            IF rss[order[k]] \in env.failed THEN <<ShardError(env, rss[order[k]])>> ELSE <<>>]),
        mergeRows(rt.OrderBy, [rows |-> <<>>, err |-> Nil],
            Flatten([k \in 1..Len(rss) |->
                IF rss[order[k]] \in env.failed THEN <<>>
                ELSE shardRows(db, rss[order[k]], rt.Query)])))

MergeSortStream(env, db, rt, rss, bvs) == mergeStreams(env, db, rt, rss, ArrivalOrder(env, Len(rss)))

LogStream(rss, queries) == LogEntry("StreamExecuteMulti", "", rss, queries)
LogStreamPrimitive(rss, queries) == LogEntry("StreamExecutePrimitive", "", rss, queries)

\* the opcode switch of TryStreamExecute: its default case has its own error
streamError(p) ==
    IF p.err = UnsupportedRouteError THEN [p EXCEPT !.err = StreamingError] ELSE p

streamParams(env, vs, rt, bindVars) == streamError(selectParams(env, vs, rt, bindVars))

\* a return of TryStreamExecute: no Result, the results given to the callback
streamOutcome(p, err, log, warns, add, delivered) ==
    [Outcome(NilResult, err, p.bindVars, log, warns, add, p.rss, p.bvs,
             NilResult, NilResult) EXCEPT !.delivered = delivered]

\* the "No route" return when fields are wanted, GetFields having returned g
streamFields(env, p, g) ==
    IF g.err # Nil THEN streamOutcome(p, g.err, p.log \o g.log, <<>>, 0, <<>>)
    ELSE streamOutcome(p, callback(env), p.log \o g.log, <<>>, 0, <<g.result>>)

\* every shard error surfaced, whatever ScatterErrorsAsWarnings says
streamUnorderedStrict(rt, p, x, log) ==
    IF Len(x.errs) > 0 THEN streamOutcome(p, Aggregate(x.errs), log, <<>>, 0, x.delivered)
    ELSE streamOutcome(p, Nil, log, <<>>, 0, x.delivered)

\* without OrderBy, StreamExecuteMulti having returned x
streamUnordered(rt, p, x, log) ==
    IF Len(x.errs) > 0 THEN
        IF ~rt.ScatterErrorsAsWarnings \/ Len(x.errs) = Len(p.rss)
        THEN streamOutcome(p, Aggregate(x.errs), log, <<>>, 0, x.delivered)
        ELSE streamOutcome(p, Nil, log, recordWarnings(x.errs), 1, x.delivered)
    ELSE streamOutcome(p, Nil, log, <<>>, 0, x.delivered)

\* Route.mergeSort, StreamExecutePrimitive having returned m
mergeSort(p, m, log) == streamOutcome(p, m.err, log, m.warns, m.add, m.delivered)

\* TryStreamExecute once the opcode switch has returned p
streamRouted(env, vs, db, rt, wantfields, p) ==
    IF p.err # Nil THEN Failure(p.err, p.bindVars, p.log, <<>>, <<>>)
    ELSE IF Len(p.rss) = 0 THEN
        IF wantfields THEN streamFields(env, p, GetFields(env, vs, db, rt, p.bindVars))
        ELSE streamOutcome(p, Nil, p.log, <<>>, 0, <<>>)
    ELSE IF Len(rt.OrderBy) = 0
        THEN streamUnordered(rt, p, StreamExecuteMulti(env, db, rt, p.rss, p.bvs),
                Append(p.log, LogStream(p.rss, getQueries(rt.Query, p.bvs))))
    ELSE mergeSort(p, MergeSortStream(env, db, rt, p.rss, p.bvs),
            Append(p.log, LogStreamPrimitive(p.rss, getQueries(rt.Query, p.bvs))))

streamInternal(env, vs, db, rt, bindVars, wantfields) ==
    streamRouted(env, vs, db, rt, wantfields, streamParams(env, vs, rt, bindVars))

\* the deferred cancel runs when streamInternal has returned r
released(rt, r) == [r EXCEPT !.log = withDeadline(rt, r)]

TryStreamExecute(env, vs, db, rt, bindVars, wantfields) ==
    released(rt, streamInternal(env, vs, db, rt, bindVars, wantfields))

----------------------------------------------------------------------------
(* The state machine: a caller makes one call at a time on the Route *)

RouteKs == "ks"
ShardNames == <<"s1", "s2", "s3", "s4">>

Opcodes ==
    {"SelectUnsharded", "SelectEqualUnique", "SelectEqual", "SelectIN", "SelectMultiEqual",
     "SelectScatter", "SelectNext", "SelectDBA", "SelectReference", "SelectNone"}
\* an opcode value outside the known ones, such as NumRouteOpcodes
UnknownOpcode == "NumRouteOpcodes"

VindexOpcodes == {"SelectEqualUnique", "SelectEqual", "SelectIN", "SelectMultiEqual"}

OrderByParams(col, ws, desc, coll) ==
    [Col |-> col, WeightStringCol |-> ws, Desc |-> desc, StarColFixedIndex |-> 0,
     CollationID |-> coll]

NoValue == [kind |-> "Literal", vals |-> <<>>, key |-> ""]
LiteralValue(vals) == [kind |-> "Literal", vals |-> vals, key |-> ""]
ListArg(key) == [kind |-> "ListArg", vals |-> <<>>, key |-> key]

NewRoute(opcode, value, orderBy, truncate, timeout, asWarnings, schemas, names) ==
    [Opcode |-> opcode, Keyspace |-> RouteKs, Query |-> QueryText,
     FieldQuery |-> FieldQueryText, Value |-> value, OrderBy |-> orderBy,
     TruncateColumnCount |-> truncate, QueryTimeout |-> timeout,
     ScatterErrorsAsWarnings |-> asWarnings,
     SysTableTableSchema |-> schemas, SysTableTableName |-> names]

\* the keyspaces of the topology and their shards
Topology(n) ==
    [k \in {RouteKs, "commerce"} |->
        IF k = RouteKs THEN [i \in 1..n |-> ShardNames[i]] ELSE <<"0">>]

AllShardsOf(vs) ==
    UNION {{ResolvedShard(k, sh) : sh \in Range(vs.shards[k])} : k \in DOMAIN vs.shards}

Row(a, b) == <<a, b>>

\* the keys a vindex maps, and a vindex sending key k to the shard of keyspace id k
Keys == 1..MaxKeys
IdentityVindex == [k \in Keys |-> DestinationKeyspaceID(k)]

NoRoutedTables == [t \in {} |-> 0]

DefaultVschema ==
    [shards |-> Topology(NumShards), vindex |-> IdentityVindex, routed |-> NoRoutedTables]

\* shard i of the Route's keyspace holds the rows (i, 1) and (i + NumShards, 2)
DefaultData(vs) ==
    [rs \in AllShardsOf(vs) |->
        IF rs.ks = RouteKs
        THEN LET i == IndexOf(vs.shards[RouteKs], rs.shard)
             IN  <<Row(NewInt64(i), NewInt64(1)), Row(NewInt64(i + NumShards), NewInt64(2))>>
        ELSE <<Row(NewInt64(0), NewInt64(1))>>]

\* the same shards when column 0 holds text
TextData(vs) ==
    [rs \in AllShardsOf(vs) |->
        [i \in 1..Len(DefaultData(vs)[rs]) |->
            Row(NewVarChar(DefaultData(vs)[rs][i][1].val), DefaultData(vs)[rs][i][2])]]

IdentityPerm(n) == [i \in 1..n |-> i]

\* the answers the environment may give during one call on rt
Envs(rt, vs) ==
    LET n == Len(vs.shards[rt.Keyspace])
        multi == rt.Opcode \in {"SelectScatter", "SelectIN", "SelectMultiEqual"}
        dba == rt.Opcode = "SelectDBA"
            /\ (DOMAIN rt.SysTableTableName # {} \/ Len(rt.SysTableTableSchema) > 0)
        names == Cardinality(DOMAIN rt.SysTableTableName)
        asked == IF dba THEN DOMAIN vs.shards ELSE {rt.Keyspace}
    IN  {e \in
        [unavailable : {{}} \cup {{x} : x \in asked},
         anyPick : IF n = 0 \/ (multi /\ DestinationAnyShard \notin Range(vs.vindex))
                   THEN {1} ELSE 1..n,
         vindexErr : IF rt.Opcode \in VindexOpcodes THEN BOOLEAN ELSE {FALSE},
         failed : SUBSET {rs \in AllShardsOf(vs) : dba \/ rs.ks = rt.Keyspace},
         canceled : IF rt.QueryTimeout # 0 THEN BOOLEAN ELSE {FALSE},
         arrival : IF multi THEN Perms(n) ELSE {IdentityPerm(n)},
         callbackErr : BOOLEAN,
         findErr : IF dba /\ names > 0 THEN {Nil, BadDb, FindError} ELSE {Nil},
         mapOrder1 : Perms(names),
         mapOrder2 : Perms(names)] : e.canceled => e.failed # {}}

\* the bind variables a caller passes
CallerBindVars == {EmptyBV, [k \in {"a"} |-> Int64BindVariable("7")]}

NoCall ==
    [op |-> "none", wantfields |-> FALSE, bindVars |-> EmptyBV,
     warningsBefore |-> <<>>, counterBefore |-> 0]

Call(op, env, bindVars, wantfields, out) ==
    [op |-> op, wantfields |-> wantfields, bindVars |-> bindVars, env |-> env, out |-> out,
     warningsBefore |-> warnings, counterBefore |-> counter]

\* the effects of a call that returned out: the warnings recorded on the
\* session and the increment of the counter
Returns(op, env, bindVars, wantfields, out) ==
    /\ last' = Call(op, env, bindVars, wantfields, out)
    /\ warnings' = warnings \o out.warns
    /\ counter' = counter + out.add

\* the caller calls route.TryExecute(vcursor, bindVars, wantfields)
TryExecuteCall ==
    /\ pc = "idle"
    /\ counter < MaxCounter
    /\ Len(warnings) < MaxWarnings
    /\ \E env \in Envs(route, vschema), bv \in CallerBindVars, wantfields \in BOOLEAN :
          /\ ~env.callbackErr
          /\ Returns("TryExecute", env, bv, wantfields,
                     TryExecute(env, vschema, data, route, bv, wantfields))
    /\ pc' = "returned"
    /\ UNCHANGED <<route, vschema, data>>

\* the caller calls route.TryStreamExecute(vcursor, bindVars, wantfields, callback)
TryStreamExecuteCall ==
    /\ pc = "idle"
    /\ counter < MaxCounter
    /\ Len(warnings) < MaxWarnings
    /\ \E env \in Envs(route, vschema), bv \in CallerBindVars, wantfields \in BOOLEAN :
          Returns("TryStreamExecute", env, bv, wantfields,
                  TryStreamExecute(env, vschema, data, route, bv, wantfields))
    /\ pc' = "returned"
    /\ UNCHANGED <<route, vschema, data>>

\* the caller takes what the call returned and is ready for the next call
Return ==
    /\ pc = "returned"
    /\ pc' = "idle"
    /\ last' = NoCall
    /\ UNCHANGED <<route, vschema, data, warnings, counter>>

\* the session starts a new statement: its warnings are cleared
ClearWarnings ==
    /\ pc = "idle"
    /\ warnings' = <<>>
    /\ UNCHANGED <<route, vschema, data, counter, pc, last>>

Next == TryExecuteCall \/ TryStreamExecuteCall \/ Return \/ ClearWarnings

\* the Routes of the main specification: every opcode, without system-table
\* expressions, ordered by column 0 or not at all
MainRoutes ==
    {NewRoute(op,
              IF op \in {"SelectEqualUnique", "SelectEqual"} THEN LiteralValue(<<1>>)
              ELSE IF op \in {"SelectIN", "SelectMultiEqual"} THEN LiteralValue(<<1, 2>>)
              ELSE NoValue,
              ob, tr, to, aw, <<>>, EmptyBV) :
        op \in Opcodes \cup {UnknownOpcode},
        ob \in {<<>>, <<OrderByParams(0, 0 - 1, FALSE, CollationUnknown)>>},
        tr \in {0, 1}, to \in {0, 100}, aw \in BOOLEAN}

InitCommon ==
    /\ warnings = <<>>
    /\ counter = 0
    /\ pc = "idle"
    /\ last = NoCall

Init ==
    /\ route \in MainRoutes
    /\ vschema = DefaultVschema
    /\ data \in {DefaultData(vschema), TextData(vschema)}
    /\ InitCommon

Spec == Init /\ [][Next]_vars

----------------------------------------------------------------------------
(* Properties of the calls *)

Returned(op) == pc = "returned" /\ last.op = op

\* the call reached the dispatch of the Route's Query to the resolved shards
Dispatched == last.out.rss # <<>>

\* the dispatched shards that failed, by position in the shard list
FailedShards == {i \in 1..Len(last.out.rss) : last.out.rss[i] \in last.env.failed}

AllFailed == Cardinality(FailedShards) = Len(last.out.rss)

AsWarnings == route.ScatterErrorsAsWarnings

\* the warnings the call recorded on the session
RecordedWarnings == SubSeq(warnings, Len(last.warningsBefore) + 1, Len(warnings))

\* C1: in TryExecute, when a shard reports an error and either
\* ScatterErrorsAsWarnings is false or every dispatched shard failed, the call
\* returns a non-nil error and no Result, records no warning and leaves the
\* counter unchanged
C1_ErrorsSurfaced ==
    (/\ Returned("TryExecute")
     /\ Dispatched
     /\ FailedShards # {}
     /\ (~AsWarnings \/ AllFailed))
    => /\ last.out.err # Nil
       /\ last.out.result.isNil
       /\ warnings = last.warningsBefore
       /\ counter = last.counterBefore

C1_Witness ==
    /\ Returned("TryExecute")
    /\ Dispatched
    /\ AsWarnings
    /\ Len(last.out.rss) >= 2
    /\ AllFailed
    /\ last.out.err = "aggregated errors"

\* C2 as stated: in TryExecute with ScatterErrorsAsWarnings, when at least one
\* dispatched shard succeeds the call returns a non-nil Result and no error,
\* and records exactly one warning per failed shard
C2_Original ==
    (/\ Returned("TryExecute")
     /\ Dispatched
     /\ AsWarnings
     /\ ~AllFailed)
    => /\ last.out.err = Nil
       /\ ~last.out.result.isNil
       /\ Len(RecordedWarnings) = Cardinality(FailedShards)

\* the error of the call is a row comparison error of the sort
SortFailed ==
    last.out.err \in {UnsupportedCollationError, UnsupportedComparisonError,
                       InternalCoercionError, UnimplementedError}

\* C2 amended: in TryExecute with ScatterErrorsAsWarnings, when at least one
\* dispatched shard succeeds the call records exactly one warning per failed
\* shard, each carrying that shard's error, and returns a non-nil Result and no
\* error unless OrderBy is non-empty and a row comparison of the sort fails, in
\* which case that comparison error is returned
C2_PartialSuccess ==
    (/\ Returned("TryExecute")
     /\ Dispatched
     /\ AsWarnings
     /\ ~AllFailed)
    => /\ Len(RecordedWarnings) = Cardinality(FailedShards)
       /\ \A i \in FailedShards :
            QueryWarning(ShardError(last.env, last.out.rss[i])) \in Range(RecordedWarnings)
       /\ \/ last.out.err = Nil /\ ~last.out.result.isNil
          \/ route.OrderBy # <<>> /\ SortFailed /\ last.out.result.isNil

C2_Witness ==
    /\ Returned("TryExecute")
    /\ Dispatched
    /\ AsWarnings
    /\ Cardinality(FailedShards) = 1
    /\ Len(last.out.rss) >= 2
    /\ last.out.err = Nil
    /\ Len(last.out.result.Rows) > 0
    /\ Len(RecordedWarnings) = 1

\* the errors the VCursor reported for the dispatched shards: a failed shard,
\* or in a streaming call a shard whose result the callback refused
ReportedErrors ==
    IF last.op = "TryStreamExecute" /\ route.OrderBy = <<>> /\ last.env.callbackErr
    THEN Len(last.out.rss)
    ELSE Cardinality(FailedShards)

\* the call ended in partial success: errors were reported, not for every shard
PartialSuccess ==
    /\ Dispatched
    /\ AsWarnings
    /\ ReportedErrors > 0
    /\ ReportedErrors < Len(last.out.rss)

----------------------------------------------------------------------------
(* The sort specification: every small result of one shard, several OrderBys *)

SortValues == {NULL, NewInt64(1), NewInt64(2), NewVarChar(1)}
SortRows == {Row(a, b) : a \in SortValues, b \in {NewInt64(1), NewInt64(2)}}

OrderBys ==
    {<<OrderByParams(0, 0 - 1, FALSE, CollationUnknown)>>,
     <<OrderByParams(0, 0 - 1, TRUE, CollationUnknown)>>,
     <<OrderByParams(0, 0 - 1, FALSE, CollationBinary)>>,
     <<OrderByParams(0, 1, FALSE, CollationUnknown)>>,
     <<OrderByParams(1, 0 - 1, TRUE, CollationUnknown)>>,
     <<OrderByParams(0, 0 - 1, FALSE, CollationBinary),
       OrderByParams(1, 0 - 1, TRUE, CollationUnknown)>>}

SortRoutes ==
    {NewRoute("SelectScatter", NoValue, ob, 0, 0, TRUE, <<>>, EmptyBV) : ob \in OrderBys}

\* one shard in the Route's keyspace, which holds the rows
SortVschema ==
    [shards |-> Topology(1), vindex |-> IdentityVindex, routed |-> NoRoutedTables]

SortData(vs, rows) ==
    [rs \in AllShardsOf(vs) |->
        IF rs = ResolvedShard(RouteKs, vs.shards[RouteKs][1]) THEN rows ELSE <<>>]

InitSort ==
    /\ route \in SortRoutes
    /\ vschema = SortVschema
    /\ \E rows \in SeqsUpTo(SortRows, MaxRows) : data = SortData(vschema, rows)
    /\ InitCommon

SpecSort == InitSort /\ [][Next]_vars

\* the comparison of two rows under every OrderBy parameter in turn
RECURSIVE RowCompareFrom(_, _, _, _)
RowCompareFrom(orderBy, k, r1, r2) ==
    IF k > Len(orderBy) THEN [cmp |-> 0, err |-> Nil]
    ELSE LET c == compare(orderBy[k], r1, r2)
         IN  IF c.err # Nil \/ c.cmp # 0 THEN c
             ELSE RowCompareFrom(orderBy, k + 1, r1, r2)

RowCompare(r1, r2) == RowCompareFrom(route.OrderBy, 1, r1, r2)

\* no comparison of two received rows fails
AllComparable(rows) ==
    \A i, j \in 1..Len(rows) : RowCompare(rows[i], rows[j]).err = Nil

\* the rows that compare equal to r under every OrderBy parameter
EqualRows(rows, r) == {x \in Range(rows) : RowCompare(x, r).cmp = 0}

\* a TryExecute call that sorted the received result
SortedCall ==
    /\ Returned("TryExecute")
    /\ Dispatched
    /\ route.OrderBy # <<>>
    /\ last.out.received.Rows # <<>>
    /\ FailedShards = {}

\* C4: the sort of TryExecute is stable: rows that compare equal under every
\* OrderBy parameter keep the relative order they had in the received Result
C4_Stable ==
    (SortedCall /\ AllComparable(last.out.received.Rows))
    => \A r \in Range(last.out.received.Rows) :
          FilterSeq(last.out.result.Rows, EqualRows(last.out.received.Rows, r))
            = FilterSeq(last.out.received.Rows, EqualRows(last.out.received.Rows, r))

\* C5: when no row comparison fails, TryExecute with a non-empty OrderBy (and
\* no truncation) returns without error the received rows, the same multiset,
\* every row less than or equal to its successor under the OrderBy comparator
C5_Sorted ==
    (SortedCall /\ AllComparable(last.out.received.Rows))
    => /\ last.out.err = Nil
       /\ SameMultiset(last.out.result.Rows, last.out.received.Rows)
       /\ \A i \in 1..(Len(last.out.result.Rows) - 1) :
            RowCompare(last.out.result.Rows[i], last.out.result.Rows[i + 1]).cmp <= 0

C5_Witness ==
    /\ SortedCall
    /\ AllComparable(last.out.received.Rows)
    /\ Len(route.OrderBy) = 2
    /\ Len(last.out.received.Rows) = 3
    /\ last.out.result.Rows # last.out.received.Rows
    /\ \E i \in 1..2 : RowCompare(last.out.result.Rows[i], last.out.result.Rows[i + 1]).cmp < 0

----------------------------------------------------------------------------
(* The vindex specification: every small key list under every vindex mapping *)

Destinations ==
    {DestinationKeyspaceID(i) : i \in 1..NumShards}
        \cup {DestinationAllShards, DestinationAnyShard, DestinationNone}

KeyLists == SeqsUpTo(Keys, MaxKeys)

VindexRoutes ==
    {NewRoute("SelectIN", LiteralValue(keys), <<>>, 0, 100, TRUE, <<>>, EmptyBV) :
        keys \in KeyLists}
    \cup {NewRoute("SelectMultiEqual", LiteralValue(keys), <<>>, 0, 0, TRUE, <<>>, EmptyBV) :
        keys \in KeyLists}
    \cup {NewRoute(op, LiteralValue(<<k>>), <<>>, 1, 0, FALSE, <<>>, EmptyBV) :
        op \in {"SelectEqual", "SelectEqualUnique"}, k \in Keys}
    \cup {NewRoute("SelectNone", NoValue, <<>>, tr, 0, FALSE, <<>>, EmptyBV) : tr \in {0, 1}}

InitVindex ==
    /\ route \in VindexRoutes
    /\ \E v \in [Keys -> Destinations] :
          vschema = [shards |-> Topology(NumShards), vindex |-> v, routed |-> NoRoutedTables]
    /\ data = DefaultData(vschema)
    /\ InitCommon

SpecVindex == InitVindex /\ [][Next]_vars

\* a call on an IN Route whose keys were mapped and resolved
InCall ==
    /\ pc = "returned"
    /\ route.Opcode = "SelectIN"
    /\ ~last.env.vindexErr
    /\ RouteKs \notin last.env.unavailable

InKeys == route.Value.vals
ListVarTuple(i) == last.out.bvs[i][ListVarName].Values
ListVarUnion == Flatten([i \in 1..Len(last.out.bvs) |-> ListVarTuple(i)])

\* the vindex maps key k to the shard rs
MappedTo(k, rs) ==
    LET d == vschema.vindex[k]
        shards == vschema.shards[RouteKs]
    IN  /\ rs.ks = RouteKs
        /\ \/ d.kind = "AllShards"
           \/ d.kind = "AnyShard"
           \/ d.kind = "KeyspaceID" /\ rs.shard = shards[((d.id - 1) % Len(shards)) + 1]

\* the number of shards an occurrence of key k is sent to
Fanout(k) ==
    LET d == vschema.vindex[k]
    IN  IF d.kind = "None" THEN 0
        ELSE IF d.kind = "AllShards" THEN Len(vschema.shards[RouteKs])
        ELSE 1

OnlyMappedKeys ==
    /\ Len(last.out.bvs) = Len(last.out.rss)
    /\ \A i \in 1..Len(last.out.rss) :
          \A k \in Range(ListVarTuple(i)) : MappedTo(k, last.out.rss[i])

\* C6 as stated: for IN, under every vindex mapping, the multiset union of the
\* per-shard ListVar tuples is the input list and a shard's tuple holds only
\* keys the vindex mapped to that shard
C6_Original ==
    InCall => SameMultiset(ListVarUnion, InKeys) /\ OnlyMappedKeys

\* C6: for IN, a shard's ListVar tuple holds only keys the vindex mapped to
\* that shard, and every occurrence of a key is in the tuples of as many shards
\* as its destination resolves to: none for None, every shard for AllShards,
\* one for a keyspace id or AnyShard; so the multiset union of the tuples is
\* the input list when every key is mapped to a keyspace id or to AnyShard
C6_InFanOut ==
    InCall
    => /\ OnlyMappedKeys
       /\ \A k \in Keys : Count(ListVarUnion, k) = Count(InKeys, k) * Fanout(k)
       /\ (\A k \in Range(InKeys) : Fanout(k) = 1) => SameMultiset(ListVarUnion, InKeys)

C6_Witness ==
    /\ InCall
    /\ Len(last.out.rss) = 2
    /\ Len(InKeys) = 2
    /\ \A k \in Range(InKeys) : vschema.vindex[k].kind = "KeyspaceID"
    /\ ListVarTuple(1) # ListVarTuple(2)
    /\ SameMultiset(ListVarUnion, InKeys)

\* a TryExecute call whose shard resolution gave no shard and no error
NoShards(p) == p.err = Nil /\ p.rss = <<>>

NoShardsCall ==
    /\ Returned("TryExecute")
    /\ NoShards(selectParams(last.env, vschema, route, last.bindVars))

\* the execute calls the Cursor received during the call
Executes ==
    {i \in 1..Len(last.out.log) :
        last.out.log[i].call \in {"ExecuteMultiShard", "StreamExecuteMulti",
                                  "StreamExecutePrimitive"}}

FieldQueryOnAnyShard(e) ==
    /\ Len(e.rss) = 1
    /\ e.rss[1].ks = route.Keyspace
    /\ e.rss[1].shard \in Range(vschema.shards[route.Keyspace])
    /\ e.queries = <<BoundQuery(route.FieldQuery, last.bindVars)>>

\* C8: when resolution gives an empty shard list, TryExecute never dispatches
\* the Route's Query; with wantfields it executes FieldQuery on one shard of
\* the Route's keyspace, exactly once whenever AnyShard of that keyspace
\* resolves, and returns the truncated result of that execution; without
\* wantfields it returns an empty Result and makes no execute call
C8_NoRoute ==
    NoShardsCall
    => /\ \A i \in Executes :
            \A q \in Range(last.out.log[i].queries) : q.Sql # route.Query
       /\ IF last.wantfields
          THEN /\ Cardinality(Executes) <= 1
               /\ \A i \in Executes : FieldQueryOnAnyShard(last.out.log[i])
               /\ (route.Keyspace \notin last.env.unavailable) => Cardinality(Executes) = 1
               /\ (last.out.err = Nil)
                    => /\ Cardinality(Executes) = 1
                       /\ last.out.result =
                            Truncate(NewResult(FieldNames, <<>>), route.TruncateColumnCount)
          ELSE /\ Executes = {}
               /\ last.out.err = Nil
               /\ last.out.result = EmptyResult

C8_Witness ==
    /\ NoShardsCall
    /\ route.Opcode = "SelectIN"
    /\ InKeys # <<>>
    /\ last.wantfields
    /\ route.TruncateColumnCount = 0
    /\ Cardinality(Executes) = 1
    /\ last.out.err = Nil
    /\ last.out.result = NewResult(FieldNames, <<>>)

----------------------------------------------------------------------------
(* Properties of the main specification: binds and deadlines *)

ReplicatingOpcodes ==
    {"SelectUnsharded", "SelectScatter", "SelectReference", "SelectNext"}

\* C7: for Unsharded, Scatter, Reference and Next, parameter building gives
\* one bind map per resolved shard, each the caller's input binds, and the
\* caller's own map is unchanged
C7_BindsReplicated ==
    (pc = "returned" /\ route.Opcode \in ReplicatingOpcodes)
    => /\ Len(last.out.bvs) = Len(last.out.rss)
       /\ \A i \in 1..Len(last.out.bvs) : last.out.bvs[i] = last.bindVars
       /\ last.out.bindVars = last.bindVars

C7_Witness ==
    /\ pc = "returned"
    /\ route.Opcode = "SelectScatter"
    /\ Len(last.out.rss) = NumShards
    /\ last.bindVars # EmptyBV
    /\ Len(last.out.bvs) = NumShards
    /\ last.out.bvs[NumShards] = last.bindVars

CallsNamed(name) == {i \in 1..Len(last.out.log) : last.out.log[i].call = name}

\* C9: a call that installs a deadline installs it before any other Cursor
\* call and invokes the cancel handle exactly once, as the last thing it does,
\* whatever the exit path; a call that installs none cancels nothing
C9_DeadlineReleased ==
    (pc = "returned")
    => IF route.QueryTimeout # 0
       THEN /\ CallsNamed("SetContextTimeout") = {1}
            /\ CallsNamed("cancel") = {Len(last.out.log)}
            /\ Len(last.out.log) >= 2
       ELSE CallsNamed("SetContextTimeout") = {} /\ CallsNamed("cancel") = {}

C9_Witness ==
    /\ Returned("TryStreamExecute")
    /\ route.QueryTimeout # 0
    /\ last.env.callbackErr
    /\ last.out.err = CallbackError
    /\ Len(last.out.log) = 4
    /\ last.out.log[4] = LogCancel

----------------------------------------------------------------------------
(* The information_schema specification: schema and table-name expressions *)

RoutedTable(ks, name) == [ks |-> ks, name |-> name]

\* the routing rules of the vschema; the keyspace "archive" is one the
\* topology does not serve
RoutedTables ==
    {NoRoutedTables,
     [t \in {<<"shop", "orders">>} |-> RoutedTable("commerce", "orders_v2")],
     [t \in {<<"shop", "orders">>, <<"", "orders">>} |-> RoutedTable("commerce", "orders_v2")],
     [t \in {<<"shop", "orders">>, <<"shop", "items">>} |->
        IF t[2] = "orders" THEN RoutedTable("commerce", "orders_v2")
        ELSE RoutedTable(RouteKs, "items_v2")],
     [t \in {<<"shop", "orders">>} |-> RoutedTable("archive", "orders_old")]}

SchemaExprs ==
    {<<>>, <<Literal("shop")>>, <<Literal("")>>, <<Literal("information_schema")>>,
     <<Literal("commerce")>>, <<Literal("shop"), Literal("commerce")>>,
     <<Literal(""), Literal("shop")>>, <<BindVariableExpr("a")>>}

TableNameExprs ==
    {EmptyBV,
     [t \in {"t1"} |-> Literal("orders")],
     [t \in {"t1", "t2"} |-> IF t = "t1" THEN Literal("orders") ELSE Literal("items")]}

DBARoutes ==
    {NewRoute("SelectDBA", NoValue, <<>>, 0, 0, FALSE, schemas, names) :
        schemas \in SchemaExprs, names \in TableNameExprs}

InitDBA ==
    /\ route \in DBARoutes
    /\ \E r \in RoutedTables :
          vschema = [shards |-> Topology(NumShards), vindex |-> IdentityVindex, routed |-> r]
    /\ data = DefaultData(vschema)
    /\ InitCommon

SpecDBA == InitDBA /\ [][Next]_vars

SpecifiedSchema == evalTableSchemas(route.SysTableTableSchema, last.bindVars, "")

\* a call on a DBA Route with a schema expression and one table-name
\* expression, whose table FindRoutedTable found to be routed
RoutedTableCall(t) ==
    /\ pc = "returned"
    /\ route.Opcode = "SelectDBA"
    /\ Len(route.SysTableTableSchema) >= 1
    /\ DOMAIN route.SysTableTableName = {t}
    /\ SpecifiedSchema.err = Nil
    /\ route.SysTableTableName[t].kind = "Literal"
    /\ last.env.findErr = Nil
    /\ CallsNamed("FindRoutedTable") # {}
    /\ <<SpecifiedSchema.ks, route.SysTableTableName[t].val>> \in DOMAIN vschema.routed

Routed(t) == vschema.routed[<<SpecifiedSchema.ks, route.SysTableTableName[t].val>>]

\* the query goes to one shard of the routed table's keyspace, with the table
\* name bound to the routed table's real name
SentToRoutedKeyspace(t) ==
    /\ Len(last.out.rss) = 1
    /\ last.out.rss[1].ks = Routed(t).ks
    /\ last.out.rss[1].shard \in Range(vschema.shards[Routed(t).ks])
    /\ Len(last.out.bvs) = 1
    /\ t \in DOMAIN last.out.bvs[1]
    /\ last.out.bvs[1][t] = StringBindVariable(Routed(t).name)

SchemaNameReplaced ==
    /\ BvReplaceSchemaName \in DOMAIN last.out.bvs[1]
    /\ last.out.bvs[1][BvReplaceSchemaName] = Int64BindVariable("1")
    /\ BvSchemaName \notin DOMAIN last.out.bvs[1]

\* C10 as stated: for DBA with a schema expression and a table-name expression
\* whose table is routed, the query goes to AnyShard of the routed table's
\* keyspace, the table name is rewritten, __replacevtschemaname is 1 and
\* __vtschemaname is absent
C10_Original ==
    \A t \in {"t1"} : RoutedTableCall(t) => SentToRoutedKeyspace(t) /\ SchemaNameReplaced

\* C10: the same when the schema expression gives a non-empty schema name and
\* AnyShard of the routed table's keyspace resolves; with an empty schema name
\* the query is routed and the table name rewritten likewise, and neither
\* __replacevtschemaname nor __vtschemaname is bound; when the keyspace does
\* not resolve, with an error other than BadDb, the call returns the
\* resolution error and sends nothing
C10_RoutedTable ==
    \A t \in {"t1"} :
        (RoutedTableCall(t) /\ Routed(t).ks \in DOMAIN vschema.shards)
        => IF Routed(t).ks \in last.env.unavailable
           THEN last.out.err = ResolveError /\ last.out.rss = <<>>
           ELSE /\ SentToRoutedKeyspace(t)
                /\ IF SpecifiedSchema.ks # ""
                   THEN SchemaNameReplaced
                   ELSE /\ BvReplaceSchemaName \notin DOMAIN last.out.bvs[1]
                        /\ BvSchemaName \notin DOMAIN last.out.bvs[1]

C10_Witness ==
    /\ RoutedTableCall("t1")
    /\ SpecifiedSchema.ks = "shop"
    /\ SentToRoutedKeyspace("t1")
    /\ last.out.rss[1].ks = "commerce"
    /\ last.out.bvs[1]["t1"] = StringBindVariable("orders_v2")
    /\ SchemaNameReplaced
    /\ last.out.err = Nil

----------------------------------------------------------------------------
(* Properties of SpecDBA: the errors of routeInfoSchemaQuery *)

\* a call on a DBA Route whose schema expressions all evaluate
SchemasEvaluated ==
    /\ pc = "returned"
    /\ route.Opcode = "SelectDBA"
    /\ \A i \in 1..Len(route.SysTableTableSchema) :
          Evaluate(route.SysTableTableSchema[i], last.bindVars).err = Nil

\* the strings the schema expressions evaluate to
SchemaNames ==
    {Evaluate(route.SysTableTableSchema[i], last.bindVars).val :
        i \in 1..Len(route.SysTableTableSchema)}

\* C11: on a DBA Route, schema expressions that evaluate to two different
\* strings make the call fail with the multi-schema error before any shard is
\* resolved, and expressions that all evaluate to one string never give it
C11_MultiSchema ==
    SchemasEvaluated
    => IF Cardinality(SchemaNames) > 1
       THEN /\ last.out.err = MultiSchemaError
            /\ CallsNamed("ResolveDestinations") = {}
            /\ last.out.rss = <<>>
       ELSE last.out.err # MultiSchemaError

\* the empty string followed by a schema name: the call is routed to it
C11_EmptyThenName ==
    /\ SchemasEvaluated
    /\ Cardinality(SchemaNames) > 1
    /\ last.out.err = Nil
    /\ CallsNamed("ResolveDestinations") # {}

\* the name a table-name expression of the Route evaluates to
TableNameOf(t) == Evaluate(route.SysTableTableName[t], last.bindVars).val

\* a DBA call that reached paramsRoutedTable, where FindRoutedTable answers
\* without error
RoutedTableLookup ==
    /\ pc = "returned"
    /\ route.Opcode = "SelectDBA"
    /\ SpecifiedSchema.err = Nil
    /\ ~SystemSchema(SpecifiedSchema.ks)
    /\ DOMAIN route.SysTableTableName # {}
    /\ \A t \in DOMAIN route.SysTableTableName :
          Evaluate(route.SysTableTableName[t], last.bindVars).err = Nil
    /\ last.env.findErr = Nil

\* two of the Route's tables are routed tables of different keyspaces
RoutedAcrossKeyspaces ==
    \E t, u \in DOMAIN route.SysTableTableName :
        /\ <<SpecifiedSchema.ks, TableNameOf(t)>> \in DOMAIN vschema.routed
        /\ <<SpecifiedSchema.ks, TableNameOf(u)>> \in DOMAIN vschema.routed
        /\ vschema.routed[<<SpecifiedSchema.ks, TableNameOf(t)>>].ks
              # vschema.routed[<<SpecifiedSchema.ks, TableNameOf(u)>>].ks

\* C12: on a DBA Route whose table names resolve to routed tables of two
\* different keyspaces, the call fails with the cross-keyspace error and
\* dispatches no query, whatever the order the names are visited in
C12_CrossKeyspace ==
    (RoutedTableLookup /\ RoutedAcrossKeyspaces)
    => /\ last.out.err = CrossKeyspaceError
       /\ last.out.rss = <<>>
       /\ CallsNamed("ExecuteMultiShard") = {}
       /\ CallsNamed("StreamExecuteMulti") = {}

\* no call on a DBA Route returns the cross-keyspace error
C12_NeverCrossKeyspace ==
    (pc = "returned") => last.out.err # CrossKeyspaceError

\* such a call is routed to the keyspace of the table visited first
C12_RoutedToFirst ==
    /\ RoutedTableLookup
    /\ RoutedAcrossKeyspaces
    /\ last.out.err = Nil
    /\ Len(last.out.rss) = 1
    /\ last.out.rss[1].ks = "commerce"

\* a DBA call with a schema name that is not a system schema, none of whose
\* tables FindRoutedTable finds to be routed
SchemaOnlyCall ==
    /\ pc = "returned"
    /\ route.Opcode = "SelectDBA"
    /\ SpecifiedSchema.err = Nil
    /\ SpecifiedSchema.ks # ""
    /\ ~SystemSchema(SpecifiedSchema.ks)
    /\ \A t \in DOMAIN route.SysTableTableName :
          /\ Evaluate(route.SysTableTableName[t], last.bindVars).err = Nil
          /\ <<SpecifiedSchema.ks, TableNameOf(t)>> \notin DOMAIN vschema.routed
    /\ last.env.findErr = Nil

\* the query goes to one shard of keyspace ks
SentToKeyspace(ks) ==
    /\ Len(last.out.rss) = 1
    /\ last.out.rss[1].ks = ks
    /\ last.out.rss[1].shard \in Range(vschema.shards[ks])
    /\ Len(last.out.bvs) = 1

SchemaNameBound ==
    /\ BvSchemaName \in DOMAIN last.out.bvs[1]
    /\ last.out.bvs[1][BvSchemaName] = StringBindVariable(SpecifiedSchema.ks)
    /\ BvReplaceSchemaName \notin DOMAIN last.out.bvs[1]

\* C13: on a DBA Route with a non-system schema name and no routed table, the
\* query goes to AnyShard of the schema's keyspace with __replacevtschemaname
\* = 1 and no __vtschemaname when that keyspace resolves; when the resolution
\* fails with BadDb it goes to AnyShard of the Route's own keyspace with
\* __vtschemaname bound to the schema name and no __replacevtschemaname, or
\* returns the resolution error when the Route's own keyspace does not resolve
C13_SchemaOnly ==
    SchemaOnlyCall
    => IF SpecifiedSchema.ks \in DOMAIN vschema.shards
       THEN SpecifiedSchema.ks \notin last.env.unavailable
            => SentToKeyspace(SpecifiedSchema.ks) /\ SchemaNameReplaced
       ELSE IF route.Keyspace \in last.env.unavailable
            THEN last.out.err = ResolveError /\ last.out.rss = <<>>
            ELSE SentToKeyspace(route.Keyspace) /\ SchemaNameBound

C13_Witness ==
    /\ SchemaOnlyCall
    /\ SpecifiedSchema.ks = "shop"
    /\ DOMAIN route.SysTableTableName # {}
    /\ SentToKeyspace(RouteKs)
    /\ SchemaNameBound
    /\ last.out.err = Nil

\* the other case: the schema's own keyspace resolves
C13_Resolved ==
    /\ SchemaOnlyCall
    /\ SpecifiedSchema.ks = "commerce"
    /\ SentToKeyspace("commerce")
    /\ SchemaNameReplaced
    /\ last.out.err = Nil

----------------------------------------------------------------------------
(* Properties of SpecDBA: the errors that reach the caller of TryExecute *)

\* ResolveDestinations of keyspace ks returns an error during the call
ResolveFails(ks) == ks \notin DOMAIN vschema.shards \/ ks \in last.env.unavailable

\* the calls of the Cursor that returned an error, by position in the log
ResolveErrors ==
    {i \in CallsNamed("ResolveDestinations") : ResolveFails(last.out.log[i].arg)}

FindErrors == {i \in CallsNamed("FindRoutedTable") : last.env.findErr # Nil}

ExecuteErrors ==
    {i \in CallsNamed("ExecuteMultiShard") :
        \E k \in 1..Len(last.out.log[i].rss) : last.out.log[i].rss[k] \in last.env.failed}

\* an expression of the Route failed to evaluate
EvaluateError ==
    \/ /\ route.Opcode = "SelectDBA"
       /\ \/ SpecifiedSchema.err = EvalErrorMissingBindVar
          \/ /\ SpecifiedSchema.err = Nil
             /\ \E t \in DOMAIN route.SysTableTableName :
                   Evaluate(route.SysTableTableName[t], last.bindVars).err # Nil
    \/ /\ route.Opcode \in {"SelectEqual", "SelectEqualUnique"}
       /\ ResolveValue(route.Value, last.bindVars).err # Nil
    \/ /\ route.Opcode \in {"SelectIN", "SelectMultiEqual"}
       /\ ResolveList(route.Value, last.bindVars).err # Nil

\* the shard errors of the dispatch were recorded as warnings
Demoted == AsWarnings /\ Dispatched /\ FailedShards # {} /\ ~AllFailed

\* C14 as stated: every error of ResolveDestinations, FindRoutedTable,
\* ExecuteMultiShard or of the evaluation of an expression during TryExecute
\* makes TryExecute return an error, unless the shard errors were demoted to
\* warnings
C14_Original ==
    (/\ Returned("TryExecute")
     /\ ResolveErrors \cup FindErrors \cup ExecuteErrors # {} \/ EvaluateError
     /\ ~Demoted)
    => last.out.err # Nil

\* routeInfoSchemaQuery falls back to the default route: the resolution of the
\* schema name alone failed, or that of a routed table's keyspace failed with
\* BadDb, and the Route's own keyspace is resolved next
FallbackResolve(i) ==
    /\ i \in ResolveErrors
    /\ route.Opcode = "SelectDBA"
    /\ \/ last.out.log[i].arg = SpecifiedSchema.ks
       \/ last.out.log[i].arg \notin DOMAIN vschema.shards
    /\ i + 1 \in CallsNamed("ResolveDestinations")
    /\ last.out.log[i + 1].arg = route.Keyspace

\* the Cursor errors that are not followed by the fallback to the default route
SurfacingErrors ==
    {i \in ResolveErrors : ~FallbackResolve(i)}
    \cup {i \in FindErrors : last.env.findErr # BadDb}
    \cup ExecuteErrors

\* what holds instead: the errors reach the caller but for the cases on a DBA
\* Route that are followed by the default route: a failed resolution of the
\* schema name alone, and a BadDb error of FindRoutedTable or of the resolution
\* of a routed table's keyspace
ErrorsPropagated ==
    (/\ Returned("TryExecute")
     /\ SurfacingErrors # {} \/ EvaluateError
     /\ ~Demoted)
    => last.out.err # Nil

\* an error of FindRoutedTable that reaches the caller
FindErrorReturned ==
    /\ Returned("TryExecute")
    /\ route.Opcode = "SelectDBA"
    /\ FindErrors # {}
    /\ last.env.findErr = FindError
    /\ last.out.err = FindError
    /\ last.out.rss = <<>>

\* a swallowed error: the keyspace of the schema name exists and its
\* resolution fails, and the call succeeds on the Route's own keyspace
C14_Swallowed ==
    /\ Returned("TryExecute")
    /\ \E i \in ResolveErrors :
          FallbackResolve(i) /\ last.out.log[i].arg \in last.env.unavailable
    /\ last.out.err = Nil
    /\ SentToKeyspace(route.Keyspace)

----------------------------------------------------------------------------
(* Properties of the main specification: cancellation *)

\* the call dispatched to shards, some of which answered with the cancellation
\* of the call's context
CanceledShards == Dispatched /\ last.env.canceled /\ FailedShards # {}

\* C15: a call in which a shard failed by cancellation or deadline expiry
\* returns an error, and that error is not recorded as a session warning, even
\* when ScatterErrorsAsWarnings is set and other shards succeeded
C15_CancelSurfaced ==
    (pc = "returned" /\ CanceledShards)
    => /\ last.out.err # Nil
       /\ \A i \in 1..Len(RecordedWarnings) : RecordedWarnings[i].Message # ContextCanceled

\* the cancellation demoted: TryExecute returns a Result and no error, and the
\* cancellation is a session warning
C15_CancelDemoted ==
    /\ Returned("TryExecute")
    /\ CanceledShards
    /\ AsWarnings
    /\ last.out.err = Nil
    /\ ~last.out.result.isNil
    /\ \E i \in 1..Len(RecordedWarnings) : RecordedWarnings[i].Message = ContextCanceled

----------------------------------------------------------------------------
(* Properties of SpecSort: the errors of the sort *)

\* the errors of the comparisons of two received rows
ComparisonErrors ==
    {RowCompare(last.out.received.Rows[i], last.out.received.Rows[j]).err :
        i, j \in 1..Len(last.out.received.Rows)} \ {Nil}

\* the first comparison sort.Slice makes on a short slice: less(1, 0)
FirstComparison == RowCompare(last.out.received.Rows[2], last.out.received.Rows[1])

C16_FirstFails ==
    /\ SortedCall
    /\ Len(last.out.received.Rows) = MaxRows
    /\ FirstComparison.err # Nil
    /\ RowCompare(last.out.received.Rows[3], last.out.received.Rows[2]).err = Nil
    /\ last.out.err = FirstComparison.err

----------------------------------------------------------------------------
(* evalengine arithmetic: Add, Subtract, Multiply and addNumeric.  An
   EvalResult holds an integer as the WordBits-wide bit pattern numval, read
   as signed by ToInt; a Float64 holds its value. *)

DataOutOfRange == "DataOutOfRange"
InvalidArithmetic == "invalid arithmetic between"

NewFloat64(f) == [typ |-> "FLOAT64", val |-> f]

\* Go's x / y on int64: truncated toward zero, and wrapped when it overflows
GoQuotient(x, y) ==
    LET ax == IF x < 0 THEN 0 - x ELSE x
        ay == IF y < 0 THEN 0 - y ELSE y
    IN  ToInt(IF (x < 0) = (y < 0) THEN ax \div ay ELSE 0 - (ax \div ay))

\* newEvalResult(v) of a sqltypes.Value
newEvalResult(v) ==
    IF IsSigned(v.typ) THEN EvalResult("INT64", ToUint(v.val), 0)
    ELSE IF IsUnsigned(v.typ) THEN EvalResult("UINT64", v.val, 0)
    ELSE IF IsFloat(v.typ) THEN EvalResult("FLOAT64", v.val, 0)
    ELSE EvalResult(v.typ, 0, v.val)

\* EvalResult.toSQLValue(typ)
toSQLValue(r, typ) ==
    IF IsSigned(typ) THEN NewInt64(ToInt(r.numval))
    ELSE IF IsUnsigned(typ) THEN NewUint64(r.numval)
    ELSE IF IsFloat(typ)
        THEN NewFloat64(IF r.typ = "INT64" THEN ToInt(r.numval) ELSE r.numval)
    ELSE NewVarChar(r.bytes)

\* the text of a value is the decimal form of the number it holds, which
\* strconv.ParseInt reads
makeNumeric(v) ==
    IF IsNumber(v.typ) THEN v ELSE EvalResult("INT64", ToUint(v.bytes), 0)

\* the pair reordered to Float64, Uint64, Int64
makeNumericAndPrioritize(i1, i2) ==
    IF makeNumeric(i1).typ = "INT64" /\ makeNumeric(i2).typ \in {"UINT64", "FLOAT64"}
        THEN <<makeNumeric(i2), makeNumeric(i1)>>
    ELSE IF makeNumeric(i1).typ = "UINT64" /\ makeNumeric(i2).typ = "FLOAT64"
        THEN <<makeNumeric(i2), makeNumeric(i1)>>
    ELSE <<makeNumeric(i1), makeNumeric(i2)>>

coerceToFloat(v2) == IF v2.typ = "INT64" THEN ToInt(v2.numval) ELSE v2.numval

floatPlusAny(v1, v2) == EvalResult("FLOAT64", v1 + coerceToFloat(v2), 0)
floatMinusAny(v1, v2) == EvalResult("FLOAT64", v1 - coerceToFloat(v2), 0)
floatTimesAny(v1, v2) == EvalResult("FLOAT64", v1 * coerceToFloat(v2), 0)
anyMinusFloat(v1, v2) == EvalResult("FLOAT64", coerceToFloat(v1) - v2, 0)

intPlusInt(v1u, v2u) ==
    LET v1 == ToInt(v1u)
        v2 == ToInt(v2u)
        result == ToInt(v1 + v2)
    IN  IF v1 > 0 /\ v2 > 0 /\ result < 0 THEN EvalResult("FLOAT64", v1 + v2, 0)
        ELSE IF v1 < 0 /\ v2 < 0 /\ result > 0 THEN EvalResult("FLOAT64", v1 + v2, 0)
        ELSE EvalResult("INT64", ToUint(result), 0)

\* the sum without the overflow test
intPlusIntWrapped(v1u, v2u) == EvalResult("INT64", ToUint(ToInt(v1u) + ToInt(v2u)), 0)

intPlusIntWithError(v1u, v2u) ==
    LET v1 == ToInt(v1u)
        v2 == ToInt(v2u)
        result == ToInt(v1 + v2)
    IN  IF (result > v1) # (v2 > 0) THEN EvalError(DataOutOfRange)
        ELSE EvalResult("INT64", ToUint(result), 0)

intMinusIntWithError(v1u, v2u) ==
    LET v1 == ToInt(v1u)
        v2 == ToInt(v2u)
        result == ToInt(v1 - v2)
    IN  IF (result < v1) # (v2 > 0) THEN EvalError(DataOutOfRange)
        ELSE EvalResult("INT64", ToUint(result), 0)

intTimesIntWithError(v1u, v2u) ==
    LET v1 == ToInt(v1u)
        v2 == ToInt(v2u)
        result == ToInt(v1 * v2)
    IN  IF v1 # 0 /\ GoQuotient(result, v1) # v2 THEN EvalError(DataOutOfRange)
        ELSE EvalResult("INT64", ToUint(result), 0)

uintPlusUint(v1, v2) ==
    IF ToUint(v1 + v2) < v2 THEN EvalResult("FLOAT64", v1 + v2, 0)
    ELSE EvalResult("UINT64", ToUint(v1 + v2), 0)

uintPlusInt(v1, v2) == uintPlusUint(v1, v2)

uintPlusUintWithError(v1, v2) ==
    IF ToUint(v1 + v2) < v1 \/ ToUint(v1 + v2) < v2 THEN EvalError(DataOutOfRange)
    ELSE EvalResult("UINT64", ToUint(v1 + v2), 0)

uintMinusUintWithError(v1, v2) ==
    IF v2 > v1 THEN EvalError(DataOutOfRange)
    ELSE EvalResult("UINT64", ToUint(v1 - v2), 0)

uintTimesUintWithError(v1, v2) ==
    IF ToUint(v1 * v2) < v2 \/ ToUint(v1 * v2) < v1 THEN EvalError(DataOutOfRange)
    ELSE EvalResult("UINT64", ToUint(v1 * v2), 0)

intMinusUintWithError(v1u, v2) ==
    IF ToInt(v1u) < 0 \/ ToInt(v1u) < ToInt(v2) THEN EvalError(DataOutOfRange)
    ELSE uintMinusUintWithError(v1u, v2)

uintPlusIntWithError(v1, v2u) ==
    LET v2 == ToInt(v2u)
        result == ToUint(v1 + ToUint(v2))
    IN  IF \/ v2 < 0 /\ v1 < ToUint(0 - v2)
           \/ v2 > 0 /\ (result < v1 \/ result < ToUint(v2))
        THEN EvalError(DataOutOfRange)
        ELSE EvalResult("UINT64", result, 0)

uintMinusIntWithError(v1, v2u) ==
    LET v2 == ToInt(v2u)
    IN  IF ToInt(v1) < v2 /\ v2 > 0 THEN EvalError(DataOutOfRange)
        ELSE IF v2 < 0 THEN uintPlusIntWithError(v1, ToUint(0 - v2))
        ELSE uintMinusUintWithError(v1, ToUint(v2))

uintTimesIntWithError(v1, v2u) ==
    IF ToInt(v2u) < 0 \/ ToInt(v1) < 0 THEN EvalError(DataOutOfRange)
    ELSE uintTimesUintWithError(v1, ToUint(ToInt(v2u)))

\* the switches on the types of the prioritized pair p
addOrdered(p) ==
    IF p[1].typ = "INT64" THEN intPlusInt(p[1].numval, p[2].numval)
    ELSE IF p[1].typ = "UINT64" /\ p[2].typ = "INT64"
        THEN uintPlusInt(p[1].numval, p[2].numval)
    ELSE IF p[1].typ = "UINT64" /\ p[2].typ = "UINT64"
        THEN uintPlusUint(p[1].numval, p[2].numval)
    ELSE floatPlusAny(p[1].numval, p[2])

addNumeric(v1, v2) == addOrdered(makeNumericAndPrioritize(v1, v2))

addOrderedWithError(p) ==
    IF p[1].typ = "INT64" THEN intPlusIntWithError(p[1].numval, p[2].numval)
    ELSE IF p[1].typ = "UINT64" /\ p[2].typ = "INT64"
        THEN uintPlusIntWithError(p[1].numval, p[2].numval)
    ELSE IF p[1].typ = "UINT64" /\ p[2].typ = "UINT64"
        THEN uintPlusUintWithError(p[1].numval, p[2].numval)
    ELSE IF p[1].typ \in {"FLOAT64", "DECIMAL"} THEN floatPlusAny(p[1].numval, p[2])
    ELSE EvalError(InvalidArithmetic)

addNumericWithError(v1, v2) == addOrderedWithError(makeNumericAndPrioritize(v1, v2))

subtractNumeric(v1, v2) ==
    IF v1.typ = "INT64" /\ v2.typ = "INT64" THEN intMinusIntWithError(v1.numval, v2.numval)
    ELSE IF v1.typ = "INT64" /\ v2.typ = "UINT64"
        THEN intMinusUintWithError(v1.numval, v2.numval)
    ELSE IF v1.typ = "UINT64" /\ v2.typ = "INT64"
        THEN uintMinusIntWithError(v1.numval, v2.numval)
    ELSE IF v1.typ = "UINT64" /\ v2.typ = "UINT64"
        THEN uintMinusUintWithError(v1.numval, v2.numval)
    ELSE IF v1.typ \in {"INT64", "UINT64"} /\ v2.typ = "FLOAT64"
        THEN anyMinusFloat(v1, v2.numval)
    ELSE IF v1.typ = "FLOAT64" THEN floatMinusAny(v1.numval, v2)
    ELSE EvalError(InvalidArithmetic)

subtractNumericWithError(i1, i2) == subtractNumeric(makeNumeric(i1), makeNumeric(i2))

multiplyOrderedWithError(p) ==
    IF p[1].typ = "INT64" THEN intTimesIntWithError(p[1].numval, p[2].numval)
    ELSE IF p[1].typ = "UINT64" /\ p[2].typ = "INT64"
        THEN uintTimesIntWithError(p[1].numval, p[2].numval)
    ELSE IF p[1].typ = "UINT64" /\ p[2].typ = "UINT64"
        THEN uintTimesUintWithError(p[1].numval, p[2].numval)
    ELSE IF p[1].typ = "FLOAT64" THEN floatTimesAny(p[1].numval, p[2])
    ELSE EvalError(InvalidArithmetic)

multiplyNumericWithError(v1, v2) ==
    multiplyOrderedWithError(makeNumericAndPrioritize(v1, v2))

\* the return of a public operation whose numeric step returned lresult
toResult(lresult) ==
    IF lresult.err # Nil THEN [val |-> NULL, err |-> lresult.err]
    ELSE [val |-> toSQLValue(lresult, lresult.typ), err |-> Nil]

Add(v1, v2) ==
    IF IsNull(v1.typ) \/ IsNull(v2.typ) THEN [val |-> NULL, err |-> Nil]
    ELSE toResult(addNumericWithError(newEvalResult(v1), newEvalResult(v2)))

Subtract(v1, v2) ==
    IF IsNull(v1.typ) \/ IsNull(v2.typ) THEN [val |-> NULL, err |-> Nil]
    ELSE toResult(subtractNumericWithError(newEvalResult(v1), newEvalResult(v2)))

Multiply(v1, v2) ==
    IF IsNull(v1.typ) \/ IsNull(v2.typ) THEN [val |-> NULL, err |-> Nil]
    ELSE toResult(multiplyNumericWithError(newEvalResult(v1), newEvalResult(v2)))

----------------------------------------------------------------------------
(* The arithmetic specification: a caller applies one operation at a time to
   two values *)

Int64Values == {NewInt64(n) : n \in MinInt..MaxInt}
Uint64Values == {NewUint64(n) : n \in 0..(TwoW - 1)}
ArithValues == {NULL} \cup Int64Values \cup Uint64Values

\* what the caller holds when the operation op has returned out
Applied(op, v1, v2, out) == [op |-> op, v1 |-> v1, v2 |-> v2, out |-> out]

AddCall ==
    /\ pc = "idle"
    /\ \E v1, v2 \in ArithValues : last' = Applied("Add", v1, v2, Add(v1, v2))
    /\ pc' = "returned"
    /\ UNCHANGED <<route, vschema, data, warnings, counter>>

SubtractCall ==
    /\ pc = "idle"
    /\ \E v1, v2 \in ArithValues : last' = Applied("Subtract", v1, v2, Subtract(v1, v2))
    /\ pc' = "returned"
    /\ UNCHANGED <<route, vschema, data, warnings, counter>>

MultiplyCall ==
    /\ pc = "idle"
    /\ \E v1, v2 \in ArithValues : last' = Applied("Multiply", v1, v2, Multiply(v1, v2))
    /\ pc' = "returned"
    /\ UNCHANGED <<route, vschema, data, warnings, counter>>

\* the internal variant, on the EvalResults of two numbers
addNumericCall ==
    /\ pc = "idle"
    /\ \E v1, v2 \in Int64Values \cup Uint64Values :
          last' = Applied("addNumeric", v1, v2,
                          addNumeric(newEvalResult(v1), newEvalResult(v2)))
    /\ pc' = "returned"
    /\ UNCHANGED <<route, vschema, data, warnings, counter>>

\* sqltypes.MakeTrusted: a value of type typ holding val; of the Null type, NULL
MakeTrusted(typ, val) == IF typ = "NULL_TYPE" THEN NULL ELSE [typ |-> typ, val |-> val]

\* zeroBytes, the numeral "0"
zeroBytes == 0

\* a NULL operand of NullSafeAdd replaced by the zero of resultType
nullAsZero(v, resultType) ==
    IF IsNull(v.typ) THEN MakeTrusted(resultType, zeroBytes) ELSE v

\* the return of NullSafeAdd whose numeric step returned lresult
nullSafeResult(lresult, resultType) ==
    IF lresult.err # Nil THEN [val |-> NULL, err |-> lresult.err]
    ELSE [val |-> toSQLValue(lresult, resultType), err |-> Nil]

NullSafeAdd(v1, v2, resultType) ==
    nullSafeResult(addNumericWithError(newEvalResult(nullAsZero(v1, resultType)),
                                       newEvalResult(nullAsZero(v2, resultType))),
                   resultType)

\* the result types a caller passes to NullSafeAdd
ResultTypes == {"INT64", "UINT64", "FLOAT64"}

NullSafeAddCall ==
    /\ pc = "idle"
    /\ \E v1, v2 \in ArithValues, resultType \in ResultTypes :
          last' = [op |-> "NullSafeAdd", v1 |-> v1, v2 |-> v2,
                   resultType |-> resultType, out |-> NullSafeAdd(v1, v2, resultType)]
    /\ pc' = "returned"
    /\ UNCHANGED <<route, vschema, data, warnings, counter>>

NextArith ==
    AddCall \/ SubtractCall \/ MultiplyCall \/ addNumericCall \/ NullSafeAddCall \/ Return

InitArith ==
    /\ route = NewRoute("SelectNone", NoValue, <<>>, 0, 0, FALSE, <<>>, EmptyBV)
    /\ vschema = DefaultVschema
    /\ data = DefaultData(vschema)
    /\ InitCommon

SpecArith == InitArith /\ [][NextArith]_vars

\* the operation op returned, applied to values of types t1 and t2
Computed(op, t1, t2) ==
    pc = "returned" /\ last.op = op /\ last.v1.typ = t1 /\ last.v2.typ = t2

\* C17: Add of two signed values returns their exact sum as an Int64 when the
\* sum fits in a signed word, and fails with DataOutOfRange otherwise
C17_AddChecked ==
    Computed("Add", "INT64", "INT64")
    => IF last.v1.val + last.v2.val \in MinInt..MaxInt
       THEN last.out = [val |-> NewInt64(last.v1.val + last.v2.val), err |-> Nil]
       ELSE last.out = [val |-> NULL, err |-> DataOutOfRange]

C17_Witness ==
    /\ Computed("Add", "INT64", "INT64")
    /\ last.v1.val = MaxInt
    /\ last.v2.val = 1
    /\ last.out.err = DataOutOfRange

\* C18: Multiply of two signed values returns their exact product as an Int64
\* when the product fits in a signed word, and fails with DataOutOfRange
\* otherwise
C18_MultiplyChecked ==
    Computed("Multiply", "INT64", "INT64")
    => IF last.v1.val * last.v2.val \in MinInt..MaxInt
       THEN last.out = [val |-> NewInt64(last.v1.val * last.v2.val), err |-> Nil]
       ELSE last.out = [val |-> NULL, err |-> DataOutOfRange]

\* -1 times the least value: the wrapped product is returned
C18_Wrapped ==
    /\ Computed("Multiply", "INT64", "INT64")
    /\ last.v1.val = 0 - 1
    /\ last.v2.val = MinInt
    /\ last.out = [val |-> NewInt64(MinInt), err |-> Nil]

\* C19: Subtract of a negative signed value v from an unsigned value u returns
\* u + |v| as a Uint64 when that sum fits in an unsigned word, and fails with
\* DataOutOfRange otherwise
C19_SubtractNegative ==
    (Computed("Subtract", "UINT64", "INT64") /\ last.v2.val < 0)
    => IF last.v1.val - last.v2.val < TwoW
       THEN last.out = [val |-> NewUint64(last.v1.val - last.v2.val), err |-> Nil]
       ELSE last.out = [val |-> NULL, err |-> DataOutOfRange]

\* 0 minus the least signed value: the difference fits and the call fails
C19_LeastFails ==
    /\ Computed("Subtract", "UINT64", "INT64")
    /\ last.v1.val = 0
    /\ last.v2.val = MinInt
    /\ last.out.err = DataOutOfRange

\* C20: addNumeric of two signed values returns their exact sum as an Int64
\* when the sum fits in a signed word and a Float64 otherwise
C20_AddPromotes ==
    Computed("addNumeric", "INT64", "INT64")
    => IF last.v1.val + last.v2.val \in MinInt..MaxInt
       THEN /\ last.out.typ = "INT64"
            /\ ToInt(last.out.numval) = last.v1.val + last.v2.val
       ELSE last.out.typ = "FLOAT64"

\* the least value added to itself: an Int64 zero is returned
C20_Zero ==
    /\ Computed("addNumeric", "INT64", "INT64")
    /\ last.v1.val = MinInt
    /\ last.v2.val = MinInt
    /\ last.out.typ = "INT64"
    /\ last.out.numval = 0

----------------------------------------------------------------------------
(* NullSafeAdd *)

\* C21: NullSafeAdd of two NULL operands returns NULL
C21_BothNull ==
    (Computed("NullSafeAdd", "NULL_TYPE", "NULL_TYPE") /\ last.out.err = Nil)
    => last.out.val = NULL

\* both operands NULL and the zero of the result type returned
C21_ZeroReturned ==
    /\ Computed("NullSafeAdd", "NULL_TYPE", "NULL_TYPE")
    /\ last.resultType = "INT64"
    /\ last.out = [val |-> NewInt64(0), err |-> Nil]

----------------------------------------------------------------------------
(* Hash codes (evalengine/arithmetic.go) *)

NewVarBinary(n) == [typ |-> "VARBINARY", val |-> n]
NewDate(n) == [typ |-> "DATE", val |-> n]

IsDate(t) == t \in {"TIMESTAMP", "DATE", "TIME", "DATETIME"}

\* HashCode(math.MaxUint64), the hash code of NULL
NullHashCode == TwoW - 1

UnknownCollationHashError ==
    "text type with an unknown/unsupported collation cannot be hashed"

HashCode(code) == [code |-> code, err |-> Nil]
HashError(e) == [code |-> 0, err |-> e]

\* numericalHashCode: the bits of the number
numericalHashCode(er) == er.numval

\* Collation.Hash of the binary collation: one code per byte string, kept apart
\* from the numeric codes
collationHash(bytes) == TwoW + bytes

\* EvalResult.nullSafeHashcode, of an EvalResult whose collation is collation
nullSafeHashcode(er, collation) ==
    IF IsNull(er.typ) THEN HashCode(NullHashCode)
    ELSE IF IsNumber(er.typ) THEN HashCode(numericalHashCode(er))
    ELSE IF IsText(er.typ) THEN
        IF collation \notin KnownCollations THEN HashError(UnknownCollationHashError)
        ELSE HashCode(collationHash(er.bytes))
    ELSE IF IsDate(er.typ) THEN HashCode(er.bytes)
    ELSE HashError(UnimplementedError)

\* NullsafeHashcode once castTo has returned castValue
hashCast(castValue, collation) ==
    IF castValue.err # Nil THEN HashError(castValue.err)
    ELSE nullSafeHashcode(castValue, collation)

NullsafeHashcode(v, collation, coerceType) == hashCast(castTo(v, coerceType), collation)

----------------------------------------------------------------------------
(* The evaluation specification: a caller compares, hashes and coerces values *)

SQLTypes ==
    {"NULL_TYPE", "INT8", "INT16", "INT24", "INT32", "INT64",
     "UINT8", "UINT16", "UINT24", "UINT32", "UINT64", "FLOAT32", "FLOAT64", "DECIMAL",
     "TEXT", "VARCHAR", "CHAR", "BLOB", "VARBINARY", "BINARY",
     "TIMESTAMP", "DATE", "TIME", "DATETIME", "ENUM", "SET", "JSON", "BIT",
     "EXPRESSION"}

Collations == {CollationUnknown, CollationBinary}

EvalValues ==
    {NULL} \cup Int64Values \cup Uint64Values
    \cup {NewFloat64(1), NewVarChar(0), NewVarChar(1), NewVarBinary(1), NewDate(1)}

\* three values compared pairwise under one collation
NullsafeCompareCall ==
    /\ pc = "idle"
    /\ \E a, b, c \in EvalValues, collationID \in Collations :
          last' = [op |-> "NullsafeCompare", a |-> a, b |-> b, c |-> c,
                   collation |-> collationID,
                   ab |-> NullsafeCompare(a, b, collationID),
                   bc |-> NullsafeCompare(b, c, collationID),
                   ac |-> NullsafeCompare(a, c, collationID)]
    /\ pc' = "returned"
    /\ UNCHANGED <<route, vschema, data, warnings, counter>>

\* the hash codes of two values under the type CoerceTo gave for them
hashAs(v, collationID, co) ==
    IF co.err # Nil THEN HashError(co.err) ELSE NullsafeHashcode(v, collationID, co.typ)

\* two values compared, and hashed under the type they coerce to
CompareAndHashCall ==
    /\ pc = "idle"
    /\ \E a, b \in EvalValues, collationID \in Collations :
          last' = [op |-> "CompareAndHash", a |-> a, b |-> b,
                   collation |-> collationID,
                   cmp |-> NullsafeCompare(a, b, collationID),
                   co |-> CoerceTo(a.typ, b.typ),
                   ha |-> hashAs(a, collationID, CoerceTo(a.typ, b.typ)),
                   hb |-> hashAs(b, collationID, CoerceTo(a.typ, b.typ))]
    /\ pc' = "returned"
    /\ UNCHANGED <<route, vschema, data, warnings, counter>>

NullsafeHashcodeCall ==
    /\ pc = "idle"
    /\ \E v \in EvalValues, collationID \in Collations, coerceType \in SQLTypes :
          last' = [op |-> "NullsafeHashcode", v |-> v, collation |-> collationID,
                   coerceType |-> coerceType,
                   out |-> NullsafeHashcode(v, collationID, coerceType)]
    /\ pc' = "returned"
    /\ UNCHANGED <<route, vschema, data, warnings, counter>>

CoerceToCall ==
    /\ pc = "idle"
    /\ \E t1, t2 \in SQLTypes :
          last' = [op |-> "CoerceTo", t1 |-> t1, t2 |-> t2,
                   out |-> CoerceTo(t1, t2), swapped |-> CoerceTo(t2, t1)]
    /\ pc' = "returned"
    /\ UNCHANGED <<route, vschema, data, warnings, counter>>

NextEval ==
    \/ NullsafeCompareCall
    \/ CompareAndHashCall
    \/ NullsafeHashcodeCall
    \/ CoerceToCall
    \/ Return

InitEval ==
    /\ route = NewRoute("SelectNone", NoValue, <<>>, 0, 0, FALSE, <<>>, EmptyBV)
    /\ vschema = DefaultVschema
    /\ data = DefaultData(vschema)
    /\ InitCommon

SpecEval == InitEval /\ [][NextEval]_vars

\* the operation op of the evaluation engine has returned
Evaluated(op) == pc = "returned" /\ last.op = op

\* C22: NullsafeCompare is transitive over the values it compares without error
C22_Transitive ==
    (/\ Evaluated("NullsafeCompare")
     /\ last.ab.err = Nil /\ last.bc.err = Nil /\ last.ac.err = Nil
     /\ last.ab.cmp <= 0
     /\ last.bc.cmp <= 0)
    => last.ac.cmp <= 0

\* a signed 3, an unsigned 5 and a signed -1: 3 <= 5 and 5 <= -1 but 3 > -1
C22_SignedAsUnsigned ==
    /\ Evaluated("NullsafeCompare")
    /\ last.a = NewInt64(3) /\ last.b = NewUint64(5) /\ last.c = NewInt64(0 - 1)
    /\ last.ab = [cmp |-> 0 - 1, err |-> Nil]
    /\ last.bc = [cmp |-> 0 - 1, err |-> Nil]
    /\ last.ac = [cmp |-> 1, err |-> Nil]

\* C23: two values that NullsafeCompare finds equal have the same outcome of
\* NullsafeHashcode under the type CoerceTo gives for their types
C23_EqualHash ==
    (/\ Evaluated("CompareAndHash")
     /\ last.cmp = [cmp |-> 0, err |-> Nil]
     /\ last.co.err = Nil)
    => last.ha = last.hb

\* equal text and binary values: the text one is hashed, the binary one fails
C23_TextAndBinary ==
    /\ Evaluated("CompareAndHash")
    /\ last.a = NewVarChar(1) /\ last.b = NewVarBinary(1)
    /\ last.collation = CollationBinary
    /\ last.cmp = [cmp |-> 0, err |-> Nil]
    /\ last.co = [typ |-> "VARCHAR", err |-> Nil]
    /\ last.ha.err = Nil
    /\ last.hb.err = UnimplementedError

\* equal values of which neither is binary hash alike
EqualHashUnlessBinary ==
    (/\ Evaluated("CompareAndHash")
     /\ last.cmp = [cmp |-> 0, err |-> Nil]
     /\ last.co.err = Nil
     /\ ~IsBinary(last.a.typ) /\ ~IsBinary(last.b.typ))
    => last.ha = last.hb

\* C24: NullsafeHashcode of NULL returns the one sentinel hash code without
\* error for every coerce type and collation, and no numeric value that is not
\* NULL is given the sentinel without error because of the coerce type alone
C24_NullSentinel ==
    Evaluated("NullsafeHashcode")
    => /\ IsNull(last.v.typ) => last.out = HashCode(NullHashCode)
       /\ (IsNumber(last.v.typ) /\ IsNull(last.coerceType))
          => last.out # HashCode(NullHashCode)

\* NULL hashed under a signed coerce type: the cast fails
C24_NullFails ==
    /\ Evaluated("NullsafeHashcode")
    /\ last.v = NULL
    /\ last.coerceType = "INT64"
    /\ last.out.err = InternalCoercionError

\* NULL hashed under the Null coerce type gives the sentinel
C24_NullUnderNull ==
    /\ Evaluated("NullsafeHashcode")
    /\ last.v = NULL
    /\ last.coerceType = "NULL_TYPE"
    /\ last.out = HashCode(NullHashCode)

\* a number hashed under the Null coerce type is given the sentinel
C24_NumberAsNull ==
    /\ Evaluated("NullsafeHashcode")
    /\ last.v = NewInt64(1)
    /\ last.coerceType = "NULL_TYPE"
    /\ last.out = HashCode(NullHashCode)

\* the only coerce type under which NULL is hashed is the Null type
NullHashedUnderNullOnly ==
    (Evaluated("NullsafeHashcode") /\ IsNull(last.v.typ))
    => IF IsNull(last.coerceType) THEN last.out = HashCode(NullHashCode)
       ELSE last.out.err # Nil

IsTextual(t) == IsText(t) \/ IsBinary(t)

\* the type the promotion ladder prescribes for two types, Nil where it has none
Ladder(t1, t2) ==
    IF t1 = t2 THEN t1
    ELSE IF IsNull(t1) \/ IsNull(t2) THEN "NULL_TYPE"
    ELSE IF IsTextual(t1) /\ IsTextual(t2) THEN "VARCHAR"
    ELSE IF ~(IsNumber(t1) \/ IsNumber(t2)) THEN Nil
    ELSE IF IsTextual(t1) \/ IsTextual(t2) THEN "FLOAT64"
    ELSE IF IsFloat(t1) \/ t1 = "DECIMAL" \/ IsFloat(t2) \/ t2 = "DECIMAL" THEN "FLOAT64"
    ELSE IF IsSigned(t1) /\ IsSigned(t2) THEN "INT64"
    ELSE IF IsIntegral(t1) /\ IsIntegral(t2) THEN "UINT64"
    ELSE Nil

\* C25: CoerceTo returns the type of the promotion ladder, fails with an
\* UnsupportedComparison error for the pairs the ladder does not cover, and
\* gives the same outcome for the two orders of a pair
C25_Ladder ==
    Evaluated("CoerceTo")
    => /\ IF Ladder(last.t1, last.t2) # Nil
          THEN last.out = [typ |-> Ladder(last.t1, last.t2), err |-> Nil]
          ELSE last.out.err = UnsupportedComparisonError
       /\ last.out = last.swapped

\* a pair the ladder does not cover: the error is the unimplemented one
C25_Unimplemented ==
    /\ Evaluated("CoerceTo")
    /\ last.t1 = "INT64"
    /\ last.t2 = "DATE"
    /\ last.out.err = UnimplementedError

\* the types of the ladder, some error outside it, and the symmetry
LadderTypes ==
    Evaluated("CoerceTo")
    => /\ IF Ladder(last.t1, last.t2) # Nil
          THEN last.out = [typ |-> Ladder(last.t1, last.t2), err |-> Nil]
          ELSE last.out.err # Nil
       /\ last.out = last.swapped

----------------------------------------------------------------------------
(* TryStreamExecute against TryExecute *)

\* what TryExecute returns for the Route, the answers of the environment and
\* the arguments of the last call
ExecutedAlike ==
    TryExecute(last.env, vschema, data, route, last.bindVars, last.wantfields)

\* a streaming call of a Route without OrderBy whose callback accepts every result
StreamedUnordered ==
    /\ Returned("TryStreamExecute")
    /\ Len(route.OrderBy) = 0
    /\ ~last.env.callbackErr

\* C26: without OrderBy, TryStreamExecute and TryExecute on the same shards
\* with the same per-shard outcomes both fail or both succeed, record the same
\* warnings and add the same amount to the counter; a streaming scatter with
\* ScatterErrorsAsWarnings of which some but not all shards fail succeeds with
\* one warning per failed shard
C26_StreamAsExecute ==
    StreamedUnordered
    => /\ (last.out.err = Nil) = (ExecutedAlike.err = Nil)
       /\ SameMultiset(last.out.warns, ExecutedAlike.warns)
       /\ last.out.add = ExecutedAlike.add
       /\ (Dispatched /\ AsWarnings /\ FailedShards # {} /\ ~AllFailed)
          => /\ last.out.err = Nil
             /\ Len(last.out.warns) = Cardinality(FailedShards)

C26_Witness ==
    /\ StreamedUnordered
    /\ route.Opcode = "SelectScatter"
    /\ AsWarnings
    /\ Cardinality(FailedShards) = 1
    /\ Len(last.out.rss) = 2
    /\ last.out.err = Nil
    /\ Len(last.out.warns) = 1
    /\ last.out.add = 1
    /\ ExecutedAlike.err = Nil

----------------------------------------------------------------------------
(* Route.sort and its input *)

\* a call of TryExecute that sorted the Result ExecuteMultiShard gave it
SortCalled ==
    /\ Returned("TryExecute")
    /\ Len(route.OrderBy) > 0
    /\ Dispatched
    /\ ~last.out.received.isNil
    /\ (last.out.err = Nil \/ SortFailed)

\* C27: Route.sort leaves its input unchanged: after the call the Rows of the
\* Result it was given are the rows it was given, in the same order
C27_InputKept ==
    SortCalled => last.out.kept.Rows = last.out.received.Rows

\* the rows of the input were out of order, and the input holds them sorted
C27_InputSorted ==
    /\ SortCalled
    /\ last.out.err = Nil
    /\ last.out.kept.Rows # last.out.received.Rows
    /\ last.out.kept.Rows = last.out.result.Rows
    /\ SameMultiset(last.out.kept.Rows, last.out.received.Rows)

----------------------------------------------------------------------------
(* Unsigned multiplication and subtraction *)

\* C28: Multiply of two unsigned values returns their exact product as a
\* Uint64 when the product is below 2^WordBits, operands 0 and 1 included, and
\* fails with DataOutOfRange exactly when it is not
C28_UnsignedProduct ==
    Computed("Multiply", "UINT64", "UINT64")
    => IF last.v1.val * last.v2.val < TwoW
       THEN last.out = [val |-> NewUint64(last.v1.val * last.v2.val), err |-> Nil]
       ELSE last.out = [val |-> NULL, err |-> DataOutOfRange]

\* 0 times 5 fails
C28_ZeroFails ==
    /\ Computed("Multiply", "UINT64", "UINT64")
    /\ last.v1.val = 0
    /\ last.v2.val = 5
    /\ last.out = [val |-> NULL, err |-> DataOutOfRange]

\* 3 times half the range overflows and returns half the range
C28_OverflowMissed ==
    /\ Computed("Multiply", "UINT64", "UINT64")
    /\ last.v1.val = 3
    /\ last.v2.val = MaxInt + 1
    /\ last.out = [val |-> NewUint64(MaxInt + 1), err |-> Nil]

\* C29: Subtract of a signed v that is not negative from an unsigned u returns
\* u - v as a Uint64 when v <= u and fails with DataOutOfRange exactly when v > u
C29_SubtractSigned ==
    (Computed("Subtract", "UINT64", "INT64") /\ last.v2.val >= 0)
    => IF last.v2.val <= last.v1.val
       THEN last.out = [val |-> NewUint64(last.v1.val - last.v2.val), err |-> Nil]
       ELSE last.out = [val |-> NULL, err |-> DataOutOfRange]

\* 1 subtracted from half the unsigned range fails
C29_UpperHalfFails ==
    /\ Computed("Subtract", "UINT64", "INT64")
    /\ last.v1.val = MaxInt + 1
    /\ last.v2.val = 1
    /\ last.out = [val |-> NULL, err |-> DataOutOfRange]

\* the claim holds of every u in the lower half of the unsigned range, and of
\* every u when v is 0
SubtractSignedLowerHalf ==
    (/\ Computed("Subtract", "UINT64", "INT64")
     /\ last.v2.val >= 0
     /\ (last.v1.val <= MaxInt \/ last.v2.val = 0))
    => IF last.v2.val <= last.v1.val
       THEN last.out = [val |-> NewUint64(last.v1.val - last.v2.val), err |-> Nil]
       ELSE last.out = [val |-> NULL, err |-> DataOutOfRange]

----------------------------------------------------------------------------
(* Properties of SpecDBA: the binds of the default route *)

\* the last call of ResolveDestinations of the call
LastResolve ==
    CHOOSE i \in CallsNamed("ResolveDestinations") :
        \A j \in CallsNamed("ResolveDestinations") : j <= i

\* the call of the Cursor at position i found a routed table
FoundRouted(i) ==
    /\ i \in CallsNamed("FindRoutedTable")
    /\ last.env.findErr = Nil
    /\ <<SpecifiedSchema.ks, last.out.log[i].arg>> \in DOMAIN vschema.routed

\* a DBA call whose routing ended on the default route, AnyShard of the Route's
\* own keyspace, and which sent the query there
DefaultRouted ==
    /\ pc = "returned"
    /\ route.Opcode = "SelectDBA"
    /\ Dispatched
    /\ SpecifiedSchema.err = Nil
    /\ SpecifiedSchema.ks # route.Keyspace
    /\ CallsNamed("ResolveDestinations") # {}
    /\ last.out.log[LastResolve].arg = route.Keyspace
    /\ ~FoundRouted(LastResolve - 1)
    /\ BvReplaceSchemaName \notin DOMAIN last.bindVars

\* C30: on the default route of a DBA call the binds sent with the query do
\* not hold __replacevtschemaname, and every table-name bind holds the name its
\* expression evaluated to
C30_DefaultBinds ==
    DefaultRouted
    => /\ BvReplaceSchemaName \notin DOMAIN last.out.bvs[1]
       /\ \A t \in DOMAIN route.SysTableTableName :
             /\ t \in DOMAIN last.out.bvs[1]
             /\ last.out.bvs[1][t] = StringBindVariable(TableNameOf(t))

\* the keyspace of the routed table is unknown: the default route is taken
\* with the rewritten table name and the replacement flag
C30_RewrittenOnDefault ==
    /\ DefaultRouted
    /\ FoundRouted(LastResolve - 2)
    /\ last.out.log[LastResolve - 1].arg \notin DOMAIN vschema.shards
    /\ last.out.rss[1].ks = route.Keyspace
    /\ BvReplaceSchemaName \in DOMAIN last.out.bvs[1]
    /\ last.out.bvs[1]["t1"] = StringBindVariable("orders_old")

\* the default route taken in any other way has the binds of the claim
DefaultBindsOtherwise ==
    (DefaultRouted /\ ~FoundRouted(LastResolve - 2)) => C30_DefaultBinds

====
